---- MODULE Spec2Model ----
(***************************************************************************)
(* StellarCade: the random generator (request / fulfill randomness oracle) *)
(* and the prize pool (reservation ledger) contracts.                      *)
(*                                                                         *)
(* Each contract's storage is one record variable.  Every entry point is a *)
(* pure operator from (storage, arguments) to [res, st, ...]: res is "Ok"  *)
(* or the name of the contract error returned, st the storage the          *)
(* invocation leaves behind.  A failed invocation leaves storage as it     *)
(* was: the host discards every write of an invocation that returns Err or *)
(* traps.  The actions apply these operators to inputs drawn from small    *)
(* sets.                                                                   *)
(***************************************************************************)
EXTENDS Integers, Sequences, FiniteSets, TLC

VARIABLES
    rng,        \* random generator storage (DataKey -> value)
    rng_last,   \* the last random generator invocation: [op, res, ev]
    pool,       \* prize pool storage (DataKey -> value)
    balance,    \* token contract ledger: holder -> balance
    audit,      \* history: sums of the successful fund / payout amounts, per-game draws
    frames,     \* external token transfers in progress (innermost last)
    pool_last,  \* the last prize pool invocation: [op, game, amount, res]
    flip,       \* coin-flip storage (DataKey -> value)
    dice,       \* dice-roll storage (DataKey -> value)
    trs,        \* treasury storage (DataKey -> value)
    ledger,     \* token ledger of the games and the treasury: holder -> balance
    ext_last    \* the last coin-flip, dice-roll or treasury invocation: [op, res]

vars == <<rng, rng_last, pool, balance, audit, frames, pool_last,
          flip, dice, trs, ledger, ext_last>>
rng_vars == <<rng, rng_last>>
pool_vars == <<pool, balance, audit, frames, pool_last>>
ext_vars == <<flip, dice, trs, ledger, ext_last>>

(***************************************************************************)
(* Bounds of the model and input sets.                                     *)
(***************************************************************************)
MaxRequestId == 2
MaxBound == 3

None == "none"
Addresses == {"admin", "oracle", "game", "stranger"}
\* the game contracts the admin is asked to whitelist or to revoke
GameContracts == {"game"}
RequestIds == 1..MaxRequestId
MaxValues == 0..MaxBound

(***************************************************************************)
(* SHA-256 (the host's env.crypto().sha256), on 32-bit words held as       *)
(* <<high 16 bits, low 16 bits>>, for messages of one block.               *)
(***************************************************************************)
Pow2(n) == 2 ^ n

RECURSIVE Xor16(_, _)
Xor16(a, b) ==
    IF a = 0 THEN b
    ELSE IF b = 0 THEN a
    ELSE ((a + b) % 2) + 2 * Xor16(a \div 2, b \div 2)

RECURSIVE And16(_, _)
And16(a, b) ==
    IF a = 0 \/ b = 0 THEN 0
    ELSE ((a % 2) * (b % 2)) + 2 * And16(a \div 2, b \div 2)

WXor(p, q) == <<Xor16(p[1], q[1]), Xor16(p[2], q[2])>>
WAnd(p, q) == <<And16(p[1], q[1]), And16(p[2], q[2])>>
WNot(p) == <<65535 - p[1], 65535 - p[2]>>
WAdd(p, q) ==
    LET lo == p[2] + q[2]
        hi == p[1] + q[1] + (lo \div 65536)
    IN  <<hi % 65536, lo % 65536>>

RotR(p, n) ==
    LET q == IF n >= 16 THEN <<p[2], p[1]>> ELSE p
        k == IF n >= 16 THEN n - 16 ELSE n
    IN  IF k = 0 THEN q
        ELSE <<(q[1] \div Pow2(k)) + (q[2] % Pow2(k)) * Pow2(16 - k),
               (q[2] \div Pow2(k)) + (q[1] % Pow2(k)) * Pow2(16 - k)>>

ShR(p, n) ==
    <<p[1] \div Pow2(n), (p[2] \div Pow2(n)) + (p[1] % Pow2(n)) * Pow2(16 - n)>>

Sha256K == <<
    <<17034, 12184>>, <<28983, 17553>>, <<46528, 64463>>, <<59829, 56229>>,
    <<14678, 49755>>, <<23025, 4593>>, <<37439, 33444>>, <<43804, 24277>>,
    <<55303, 43672>>, <<4739, 23297>>, <<9265, 34238>>, <<21772, 32195>>,
    <<29374, 23924>>, <<32990, 45566>>, <<39900, 1703>>, <<49563, 61812>>,
    <<58523, 27073>>, <<61374, 18310>>, <<4033, 40390>>, <<9228, 41420>>,
    <<11753, 11375>>, <<19060, 33962>>, <<23728, 43484>>, <<30457, 35034>>,
    <<38974, 20818>>, <<43057, 50797>>, <<45059, 10184>>, <<48985, 32711>>,
    <<50912, 3059>>, <<54695, 37191>>, <<1738, 25425>>, <<5161, 10599>>,
    <<10167, 2693>>, <<11803, 8504>>, <<19756, 28156>>, <<21304, 3347>>,
    <<25866, 29524>>, <<30314, 2747>>, <<33218, 51502>>, <<37490, 11397>>,
    <<41663, 59553>>, <<43034, 26187>>, <<49739, 35696>>, <<51052, 20899>>,
    <<53650, 59417>>, <<54937, 1572>>, <<62478, 13701>>, <<4202, 41072>>,
    <<6564, 49430>>, <<7735, 27656>>, <<10056, 30540>>, <<13488, 48309>>,
    <<14620, 3251>>, <<20184, 43594>>, <<23452, 51791>>, <<26670, 28659>>,
    <<29839, 33518>>, <<30885, 25455>>, <<33992, 30740>>, <<36039, 520>>,
    <<37054, 65530>>, <<42064, 27883>>, <<48889, 41975>>, <<50801, 30962>>
>>

Sha256H0 == <<
    <<27145, 58983>>, <<47975, 44677>>, <<15470, 62322>>, <<42319, 62778>>,
    <<20750, 21119>>, <<39685, 26764>>, <<8067, 55723>>, <<23520, 52505>>
>>

SmallSigma0(w) == WXor(WXor(RotR(w, 7), RotR(w, 18)), ShR(w, 3))
SmallSigma1(w) == WXor(WXor(RotR(w, 17), RotR(w, 19)), ShR(w, 10))
BigSigma0(w) == WXor(WXor(RotR(w, 2), RotR(w, 13)), RotR(w, 22))
BigSigma1(w) == WXor(WXor(RotR(w, 6), RotR(w, 11)), RotR(w, 25))
Ch(e, f, g) == WXor(WAnd(e, f), WAnd(WNot(e), g))
Maj(a, b, c) == WXor(WXor(WAnd(a, b), WAnd(a, c)), WAnd(b, c))

\* The message schedule: w extended to n words, computed by halves so that
\* the evaluation stays shallow.
RECURSIVE ScheduleTo(_, _)
ScheduleTo(w, n) ==
    IF Len(w) >= n THEN w
    ELSE IF Len(w) + 1 = n
        THEN Append(w, WAdd(WAdd(SmallSigma1(w[n - 2]), w[n - 7]),
                            WAdd(SmallSigma0(w[n - 15]), w[n - 16])))
    ELSE LET half == ScheduleTo(w, Len(w) + ((n - Len(w)) \div 2))
         IN  IF Len(half) < n THEN ScheduleTo(half, n) ELSE half

Schedule(w) == ScheduleTo(w, 64)

\* Round t of the compression function.
Round(s, w, t) ==
    LET t1 == WAdd(WAdd(WAdd(s[8], BigSigma1(s[5])),
                        WAdd(Ch(s[5], s[6], s[7]), Sha256K[t])), w[t])
        t2 == WAdd(BigSigma0(s[1]), Maj(s[1], s[2], s[3]))
    IN  <<WAdd(t1, t2), s[1], s[2], s[3], WAdd(s[4], t1), s[5], s[6], s[7]>>

\* Rounds t..64, computed by halves; the test on Len makes TLC compute the
\* first half's state before it starts on the second.
RECURSIVE RoundsFromTo(_, _, _, _)
RoundsFromTo(s, w, lo, hi) ==
    IF lo = hi THEN Round(s, w, lo)
    ELSE LET mid == (lo + hi) \div 2
             first == RoundsFromTo(s, w, lo, mid)
         IN  IF Len(first) = 8 THEN RoundsFromTo(first, w, mid + 1, hi) ELSE first

Rounds(s, w, t) == IF t > 64 THEN s ELSE RoundsFromTo(s, w, t, 64)

Zeros(n) == [i \in 1..n |-> 0]

\* Padding of a message of at most 55 bytes to the single 64-byte block.
Pad(msg) ==
    msg \o <<128>> \o Zeros(55 - Len(msg)) \o Zeros(6)
        \o <<(Len(msg) * 8) \div 256, (Len(msg) * 8) % 256>>

BlockWords(b) ==
    [i \in 1..16 |-> <<b[4*i - 3] * 256 + b[4*i - 2], b[4*i - 1] * 256 + b[4*i]>>]

WordBytes(p) == <<p[1] \div 256, p[1] % 256, p[2] \div 256, p[2] % 256>>

\* The 32 bytes of SHA-256(msg).
Sha256(msg) ==
    LET w == Schedule(BlockWords(Pad(msg)))
        s == Rounds(Sha256H0, w, 1)
    IN  WordBytes(WAdd(Sha256H0[1], s[1])) \o WordBytes(WAdd(Sha256H0[2], s[2]))
        \o WordBytes(WAdd(Sha256H0[3], s[3])) \o WordBytes(WAdd(Sha256H0[4], s[4]))
        \o WordBytes(WAdd(Sha256H0[5], s[5])) \o WordBytes(WAdd(Sha256H0[6], s[6]))
        \o WordBytes(WAdd(Sha256H0[7], s[7])) \o WordBytes(WAdd(Sha256H0[8], s[8]))

(***************************************************************************)
(* Byte conversions of derive_result.                                      *)
(***************************************************************************)
\* u64::to_be_bytes: the len low-order bytes of n, most significant first.
RECURSIVE to_be_bytes(_, _)
to_be_bytes(n, len) ==
    IF len = 0 THEN <<>> ELSE Append(to_be_bytes(n \div 256, len - 1), n % 256)

\* u64::from_be_bytes(bytes) % m, folded byte by byte (the value itself
\* exceeds the checker's integers).
RECURSIVE from_be_bytes_mod(_, _)
from_be_bytes_mod(bytes, m) ==
    IF bytes = <<>> THEN 0
    ELSE (from_be_bytes_mod(SubSeq(bytes, 1, Len(bytes) - 1), m) * 256
            + bytes[Len(bytes)]) % m

\* A 32-byte server seed as the tests build it: 31 zero bytes, then b.
seed(b) == Zeros(31) \o <<b>>
ServerSeeds == {seed(1), seed(2)}

(***************************************************************************)
(* Results.  A contract error is named as in the Error enum; HostTrap is a *)
(* host-level failure (require_auth without authorization, a failed token  *)
(* transfer, a panic), which aborts the invocation like any error.         *)
(***************************************************************************)
Ok == "Ok"
HostTrap == "HostTrap"
NoEvent == [type |-> "none"]

Fail(st, e) == [res |-> e, st |-> st, ev |-> NoEvent]
Done(st, ev) == [res |-> Ok, st |-> st, ev |-> ev]

\* persistent().set / remove on a keyed family of entries
Put(f, k, v) == [x \in DOMAIN f \cup {k} |-> IF x = k THEN v ELSE f[x]]
Remove(f, k) == [x \in DOMAIN f \ {k} |-> f[x]]

(***************************************************************************)
(* Random generator                                                        *)
(***************************************************************************)
RngDeployed ==
    [Admin |-> None, Oracle |-> None, AuthorizedCaller |-> {},
     PendingRequest |-> <<>>, FulfilledRequest |-> <<>>]

rng_require_initialized(st) ==
    IF st.Admin = None THEN "NotInitialized" ELSE Ok

\* Variant: any address that authorizes the call passes for the admin.
rng_require_admin_any_signer(st, caller, auth) ==
    IF st.Admin = None THEN "NotInitialized"
    ELSE IF ~auth THEN HostTrap
    ELSE Ok

rng_require_admin(st, caller, auth) ==
    IF st.Admin = None THEN "NotInitialized"
    ELSE IF ~auth THEN HostTrap
    ELSE IF caller # st.Admin THEN "NotAuthorized"
    ELSE Ok

\* Variant: any address that authorizes the call passes for the oracle.
require_oracle_any_signer(st, caller, auth) ==
    IF st.Oracle = None THEN "NotInitialized"
    ELSE IF ~auth THEN HostTrap
    ELSE Ok

require_oracle(st, caller, auth) ==
    IF st.Oracle = None THEN "NotInitialized"
    ELSE IF ~auth THEN HostTrap
    ELSE IF caller # st.Oracle THEN "NotAuthorized"
    ELSE Ok

\* Variant: the request id is left out of what is hashed.
preimage_without_request_id(server_seed, request_id) == server_seed \o to_be_bytes(0, 8)

preimage(server_seed, request_id) == server_seed \o to_be_bytes(request_id, 8)

\* SHA-256(server_seed || request_id_be), computed once per input.
Digest == [s \in ServerSeeds, id \in RequestIds |-> Sha256(preimage(s, id))]

\* What an operator yields when the code panics (no u64 is negative).
Panicked == -1

\* Variant: the range taken as inclusive of max.
derive_result_inclusive(server_seed, request_id, max) ==
    from_be_bytes_mod(SubSeq(Digest[server_seed, request_id], 1, 8), max + 1)

\* Variant: the last 8 digest bytes instead of the first 8.
derive_result_low_bytes(server_seed, request_id, max) ==
    IF max = 0 THEN Panicked
    ELSE from_be_bytes_mod(SubSeq(Digest[server_seed, request_id], 25, 32), max)

\* raw % max on the first 8 digest bytes.  A remainder by zero panics: the
\* operator then yields Panicked, which is no u64.
derive_result(server_seed, request_id, max) ==
    LET digest == Digest[server_seed, request_id]
    IN  IF max = 0 THEN Panicked
        ELSE from_be_bytes_mod(SubSeq(digest, 1, 8), max)

\* Variant: init without the AlreadyInitialized check.
rng_init_overwrites(st, admin, oracle, auth) ==
    IF ~auth THEN Fail(st, HostTrap)
    ELSE Done([st EXCEPT !.Admin = admin, !.Oracle = oracle], NoEvent)

rng_init(st, admin, oracle, auth) ==
    IF st.Admin # None THEN Fail(st, "AlreadyInitialized")
    ELSE IF ~auth THEN Fail(st, HostTrap)
    ELSE Done([st EXCEPT !.Admin = admin, !.Oracle = oracle], NoEvent)

authorize(st, admin, caller, auth) ==
    IF rng_require_initialized(st) # Ok THEN Fail(st, rng_require_initialized(st))
    ELSE IF rng_require_admin(st, admin, auth) # Ok
        THEN Fail(st, rng_require_admin(st, admin, auth))
    ELSE Done([st EXCEPT !.AuthorizedCaller = @ \cup {caller}], NoEvent)

\* Variant: revoke also drops the pending requests of the revoked caller.
revoke_cancels_pending(st, admin, caller, auth) ==
    IF rng_require_initialized(st) # Ok THEN Fail(st, rng_require_initialized(st))
    ELSE IF rng_require_admin(st, admin, auth) # Ok
        THEN Fail(st, rng_require_admin(st, admin, auth))
    ELSE Done([st EXCEPT
                 !.AuthorizedCaller = @ \ {caller},
                 !.PendingRequest =
                     [id \in {i \in DOMAIN @ : @[i].caller # caller} |-> @[id]]],
              NoEvent)

\* Variant: revoke passes its checks and leaves the whitelist as it is.
revoke_keeps_caller(st, admin, caller, auth) ==
    IF rng_require_initialized(st) # Ok THEN Fail(st, rng_require_initialized(st))
    ELSE IF rng_require_admin(st, admin, auth) # Ok
        THEN Fail(st, rng_require_admin(st, admin, auth))
    ELSE Done(st, NoEvent)

revoke(st, admin, caller, auth) ==
    IF rng_require_initialized(st) # Ok THEN Fail(st, rng_require_initialized(st))
    ELSE IF rng_require_admin(st, admin, auth) # Ok
        THEN Fail(st, rng_require_admin(st, admin, auth))
    ELSE Done([st EXCEPT !.AuthorizedCaller = @ \ {caller}], NoEvent)

\* Variants of request_random: the duplicate check looks only at the pending
\* entries, only at the fulfilled entries, or the whitelist check is missing.
request_random_variant(st, caller, request_id, max, auth, checks) ==
    IF rng_require_initialized(st) # Ok THEN Fail(st, rng_require_initialized(st))
    ELSE IF max < 2 THEN Fail(st, "InvalidBound")
    ELSE IF ~auth THEN Fail(st, HostTrap)
    ELSE IF "whitelist" \in checks /\ caller \notin st.AuthorizedCaller
        THEN Fail(st, "UnauthorizedCaller")
    ELSE IF \/ "pending" \in checks /\ request_id \in DOMAIN st.PendingRequest
            \/ "fulfilled" \in checks /\ request_id \in DOMAIN st.FulfilledRequest
        THEN Fail(st, "DuplicateRequestId")
    ELSE Done([st EXCEPT !.PendingRequest =
                    Put(@, request_id, [caller |-> caller, max |-> max])],
              [type |-> "RandomRequested", request_id |-> request_id,
               caller |-> caller, max |-> max])

request_random_pending_only(st, caller, request_id, max, auth) ==
    request_random_variant(st, caller, request_id, max, auth, {"whitelist", "pending"})

request_random_fulfilled_only(st, caller, request_id, max, auth) ==
    request_random_variant(st, caller, request_id, max, auth, {"whitelist", "fulfilled"})

request_random_open(st, caller, request_id, max, auth) ==
    request_random_variant(st, caller, request_id, max, auth, {"pending", "fulfilled"})

\* Variant: request_random without the check on max.
request_random_any_bound(st, caller, request_id, max, auth) ==
    IF rng_require_initialized(st) # Ok THEN Fail(st, rng_require_initialized(st))
    ELSE IF ~auth THEN Fail(st, HostTrap)
    ELSE IF caller \notin st.AuthorizedCaller THEN Fail(st, "UnauthorizedCaller")
    ELSE IF request_id \in DOMAIN st.PendingRequest
            \/ request_id \in DOMAIN st.FulfilledRequest
        THEN Fail(st, "DuplicateRequestId")
    ELSE Done([st EXCEPT !.PendingRequest =
                    Put(@, request_id, [caller |-> caller, max |-> max])],
              [type |-> "RandomRequested", request_id |-> request_id,
               caller |-> caller, max |-> max])

request_random(st, caller, request_id, max, auth) ==
    IF rng_require_initialized(st) # Ok THEN Fail(st, rng_require_initialized(st))
    ELSE IF max < 2 THEN Fail(st, "InvalidBound")
    ELSE IF ~auth THEN Fail(st, HostTrap)
    ELSE IF caller \notin st.AuthorizedCaller THEN Fail(st, "UnauthorizedCaller")
    ELSE IF request_id \in DOMAIN st.PendingRequest
            \/ request_id \in DOMAIN st.FulfilledRequest
        THEN Fail(st, "DuplicateRequestId")
    ELSE Done([st EXCEPT !.PendingRequest =
                    Put(@, request_id, [caller |-> caller, max |-> max])],
              [type |-> "RandomRequested", request_id |-> request_id,
               caller |-> caller, max |-> max])

\* Variants of fulfill_random: the pending entry is left in place, or the
\* AlreadyFulfilled check is missing.
fulfill_random_variant(st, oracle, request_id, server_seed, auth, steps) ==
    IF rng_require_initialized(st) # Ok THEN Fail(st, rng_require_initialized(st))
    ELSE IF require_oracle(st, oracle, auth) # Ok
        THEN Fail(st, require_oracle(st, oracle, auth))
    ELSE IF "replay_check" \in steps /\ request_id \in DOMAIN st.FulfilledRequest
        THEN Fail(st, "AlreadyFulfilled")
    ELSE IF request_id \notin DOMAIN st.PendingRequest THEN Fail(st, "RequestNotFound")
    ELSE LET pending == st.PendingRequest[request_id]
             result == derive_result(server_seed, request_id, pending.max)
         IN  IF result = Panicked THEN Fail(st, HostTrap)
             ELSE Done([st EXCEPT
                          !.PendingRequest =
                              IF "remove" \in steps THEN Remove(@, request_id) ELSE @,
                          !.FulfilledRequest =
                              Put(@, request_id,
                                  [caller |-> pending.caller, max |-> pending.max,
                                   server_seed |-> server_seed, result |-> result])],
                       [type |-> "RandomFulfilled", request_id |-> request_id,
                        result |-> result, server_seed |-> server_seed])

fulfill_random_keeps_pending(st, oracle, request_id, server_seed, auth) ==
    fulfill_random_variant(st, oracle, request_id, server_seed, auth, {"replay_check"})

fulfill_random_no_replay_check(st, oracle, request_id, server_seed, auth) ==
    fulfill_random_variant(st, oracle, request_id, server_seed, auth, {"remove"})

\* Variant: fulfill_random refuses a request whose caller is no longer whitelisted.
fulfill_random_requires_whitelisted(st, oracle, request_id, server_seed, auth) ==
    IF rng_require_initialized(st) # Ok THEN Fail(st, rng_require_initialized(st))
    ELSE IF require_oracle(st, oracle, auth) # Ok
        THEN Fail(st, require_oracle(st, oracle, auth))
    ELSE IF request_id \in DOMAIN st.FulfilledRequest THEN Fail(st, "AlreadyFulfilled")
    ELSE IF request_id \notin DOMAIN st.PendingRequest THEN Fail(st, "RequestNotFound")
    ELSE IF st.PendingRequest[request_id].caller \notin st.AuthorizedCaller
        THEN Fail(st, "UnauthorizedCaller")
    ELSE LET pending == st.PendingRequest[request_id]
             result == derive_result(server_seed, request_id, pending.max)
         IN  IF result = Panicked THEN Fail(st, HostTrap)
             ELSE Done([st EXCEPT
                          !.PendingRequest = Remove(@, request_id),
                          !.FulfilledRequest =
                              Put(@, request_id,
                                  [caller |-> pending.caller, max |-> pending.max,
                                   server_seed |-> server_seed, result |-> result])],
                       [type |-> "RandomFulfilled", request_id |-> request_id,
                        result |-> result, server_seed |-> server_seed])

fulfill_random(st, oracle, request_id, server_seed, auth) ==
    IF rng_require_initialized(st) # Ok THEN Fail(st, rng_require_initialized(st))
    ELSE IF require_oracle(st, oracle, auth) # Ok
        THEN Fail(st, require_oracle(st, oracle, auth))
    ELSE IF request_id \in DOMAIN st.FulfilledRequest THEN Fail(st, "AlreadyFulfilled")
    ELSE IF request_id \notin DOMAIN st.PendingRequest THEN Fail(st, "RequestNotFound")
    ELSE LET pending == st.PendingRequest[request_id]
             result == derive_result(server_seed, request_id, pending.max)
         IN  IF result = Panicked THEN Fail(st, HostTrap)
             ELSE Done([st EXCEPT
                          !.PendingRequest = Remove(@, request_id),
                          !.FulfilledRequest =
                              Put(@, request_id,
                                  [caller |-> pending.caller, max |-> pending.max,
                                   server_seed |-> server_seed, result |-> result])],
                       [type |-> "RandomFulfilled", request_id |-> request_id,
                        result |-> result, server_seed |-> server_seed])

\* Variant: a pending request is told apart from an unknown one.
get_result_reports_pending(st, request_id) ==
    IF rng_require_initialized(st) # Ok
        THEN [res |-> rng_require_initialized(st), entry |-> None]
    ELSE IF request_id \in DOMAIN st.FulfilledRequest
        THEN [res |-> Ok, entry |-> st.FulfilledRequest[request_id]]
    ELSE IF request_id \in DOMAIN st.PendingRequest
        THEN [res |-> "RequestPending", entry |-> None]
    ELSE [res |-> "RequestNotFound", entry |-> None]

\* res is Ok and entry the stored FulfilledEntry, or res is the error.
get_result(st, request_id) ==
    IF rng_require_initialized(st) # Ok
        THEN [res |-> rng_require_initialized(st), entry |-> None]
    ELSE IF request_id \in DOMAIN st.FulfilledRequest
        THEN [res |-> Ok, entry |-> st.FulfilledRequest[request_id]]
    ELSE [res |-> "RequestNotFound", entry |-> None]

(***************************************************************************)
(* Random generator: one action per entry point.                           *)
(***************************************************************************)
RngInvoke(op, r) ==
    /\ rng' = r.st
    /\ rng_last' = [op |-> op, res |-> r.res, ev |-> r.ev]
    /\ UNCHANGED <<pool_vars, ext_vars>>

RngInitCall ==
    \E admin \in {"admin"}, oracle \in {"oracle"}, auth \in BOOLEAN :
        RngInvoke("init", rng_init(rng, admin, oracle, auth))

Authorize ==
    \E admin \in Addresses, caller \in GameContracts, auth \in BOOLEAN :
        RngInvoke("authorize", authorize(rng, admin, caller, auth))

Revoke ==
    \E admin \in Addresses, caller \in GameContracts, auth \in BOOLEAN :
        RngInvoke("revoke", revoke(rng, admin, caller, auth))

RequestRandom ==
    \E caller \in Addresses, id \in RequestIds, max \in MaxValues, auth \in BOOLEAN :
        RngInvoke("request_random", request_random(rng, caller, id, max, auth))

FulfillRandom ==
    \E oracle \in Addresses, id \in RequestIds, s \in ServerSeeds, auth \in BOOLEAN :
        RngInvoke("fulfill_random", fulfill_random(rng, oracle, id, s, auth))

GetResult ==
    \E id \in RequestIds :
        /\ rng_last' = [op |-> "get_result", res |-> get_result(rng, id).res,
                        ev |-> NoEvent]
        /\ UNCHANGED <<rng, pool_vars, ext_vars>>

RngNext ==
    \/ RngInitCall
    \/ Authorize
    \/ Revoke
    \/ RequestRandom
    \/ FulfillRandom
    \/ GetResult

(***************************************************************************)
(* Prize pool                                                              *)
(***************************************************************************)
TokenSupply == 3
\* i128::MAX, scaled to the model's width
I128_MAX == 15
I128_MIN == -I128_MAX - 1

Accounts == {"admin", "funder", "winner"}
\* who is passed as admin (the stored admin, and another address), who
\* funds, and who is paid
Callers == {"admin", "funder"}
Funders == {"funder", "winner"}
Recipients == {"winner"}
PoolAddress == "pool"
Holders == Accounts \cup {PoolAddress}
GameIds == {1, 2}
Amounts == -1..(TokenSupply + 1)
\* Fund calls are accepted by the model until this much has been funded.
MaxTotalFunded == TokenSupply + 1

\* Option<T>: <<>> is None, <<v>> is Some(v)
Some(v) == <<v>>
Nothing == <<>>

\* Variant: a sum beyond the i128 range wraps around.
wrapping_add(a, b) ==
    Some(((a + b - I128_MIN) % (I128_MAX - I128_MIN + 1)) + I128_MIN)

checked_add(a, b) ==
    IF a + b > I128_MAX \/ a + b < I128_MIN THEN Nothing ELSE Some(a + b)
checked_sub(a, b) ==
    IF a - b > I128_MAX \/ a - b < I128_MIN THEN Nothing ELSE Some(a - b)

PoolDeployed ==
    [Admin |-> None, Token |-> None, Available |-> Nothing,
     TotalReserved |-> Nothing, Reservation |-> <<>>]

\* What an invocation ends with when the token's transfer fails: the token's
\* error, which the host passes on after discarding the invocation's writes.
TransferAborted == "TransferAborted"

PFail(st, bal, e) == [res |-> e, st |-> st, bal |-> bal, ev |-> NoEvent]
PDone(st, bal, ev) == [res |-> Ok, st |-> st, bal |-> bal, ev |-> ev]

pool_require_initialized(st) ==
    IF st.Admin = None THEN "NotInitialized" ELSE Ok

\* Variant: any address that authorizes the call passes for the admin.
pool_require_admin_any_signer(st, caller, auth) ==
    IF st.Admin = None THEN "NotInitialized"
    ELSE IF ~auth THEN HostTrap
    ELSE Ok

pool_require_admin(st, caller, auth) ==
    IF st.Admin = None THEN "NotInitialized"
    ELSE IF ~auth THEN HostTrap
    ELSE IF caller # st.Admin THEN "NotAuthorized"
    ELSE Ok

get_available(st) == IF st.Available = Nothing THEN 0 ELSE st.Available[1]
get_total_reserved(st) == IF st.TotalReserved = Nothing THEN 0 ELSE st.TotalReserved[1]

\* The token's transfer(from, to, amount): Some(ledger after it), or Nothing
\* when it aborts (the token refuses it, or from's balance is too small).
token_transfer(bal, from, to, amount, accepted) ==
    IF ~accepted \/ amount < 0 \/ bal[from] < amount THEN Nothing
    ELSE Some([h \in DOMAIN bal |->
                 bal[h] - (IF h = from THEN amount ELSE 0)
                        + (IF h = to THEN amount ELSE 0)])

pool_init(st, admin, token, auth) ==
    IF st.Admin # None THEN [res |-> "AlreadyInitialized", st |-> st]
    ELSE IF ~auth THEN [res |-> HostTrap, st |-> st]
    ELSE [res |-> Ok,
          st |-> [st EXCEPT !.Admin = admin, !.Token = token,
                            !.Available = Some(0), !.TotalReserved = Some(0)]]

fund(st, bal, from, amount, auth, accepted) ==
    IF pool_require_initialized(st) # Ok
        THEN PFail(st, bal, pool_require_initialized(st))
    ELSE IF amount <= 0 THEN PFail(st, bal, "InvalidAmount")
    ELSE IF ~auth THEN PFail(st, bal, HostTrap)
    ELSE LET moved == token_transfer(bal, from, PoolAddress, amount, accepted)
             new_available == checked_add(get_available(st), amount)
         IN  IF moved = Nothing THEN PFail(st, bal, TransferAborted)
             ELSE IF new_available = Nothing THEN PFail(st, bal, "Overflow")
             ELSE PDone([st EXCEPT !.Available = new_available], moved[1],
                        [type |-> "Funded", from |-> from, amount |-> amount])

\* Variant: no check for an open reservation of the same game.
reserve_without_reservation_check(st, admin, game_id, amount, auth) ==
    IF pool_require_admin(st, admin, auth) # Ok
        THEN Fail(st, pool_require_admin(st, admin, auth))
    ELSE IF amount <= 0 THEN Fail(st, "InvalidAmount")
    ELSE IF amount > get_available(st) THEN Fail(st, "InsufficientFunds")
    ELSE Done([st EXCEPT
                 !.Available = Some(get_available(st) - amount),
                 !.TotalReserved = Some(get_total_reserved(st) + amount),
                 !.Reservation =
                     Put(@, game_id, [total |-> amount, remaining |-> amount])],
              [type |-> "Reserved", game_id |-> game_id, amount |-> amount])

\* Variant: when the reserved total overflows, the available amount written
\* just before stays written.
reserve_overflow_keeps_available(st, admin, game_id, amount, auth) ==
    IF pool_require_admin(st, admin, auth) # Ok
        THEN Fail(st, pool_require_admin(st, admin, auth))
    ELSE IF amount <= 0 THEN Fail(st, "InvalidAmount")
    ELSE IF game_id \in DOMAIN st.Reservation THEN Fail(st, "GameAlreadyReserved")
    ELSE IF amount > get_available(st) THEN Fail(st, "InsufficientFunds")
    ELSE IF checked_add(get_total_reserved(st), amount) = Nothing
        THEN Fail([st EXCEPT !.Available = Some(get_available(st) - amount)], "Overflow")
    ELSE Done([st EXCEPT
                 !.Available = Some(get_available(st) - amount),
                 !.TotalReserved = Some(get_total_reserved(st) + amount),
                 !.Reservation =
                     Put(@, game_id, [total |-> amount, remaining |-> amount])],
              [type |-> "Reserved", game_id |-> game_id, amount |-> amount])

\* Variant: the whole available amount cannot be reserved.
reserve_strictly_below_available(st, admin, game_id, amount, auth) ==
    IF pool_require_admin(st, admin, auth) # Ok
        THEN Fail(st, pool_require_admin(st, admin, auth))
    ELSE IF amount <= 0 THEN Fail(st, "InvalidAmount")
    ELSE IF game_id \in DOMAIN st.Reservation THEN Fail(st, "GameAlreadyReserved")
    ELSE IF amount >= get_available(st) THEN Fail(st, "InsufficientFunds")
    ELSE Done([st EXCEPT
                 !.Available = Some(get_available(st) - amount),
                 !.TotalReserved = Some(get_total_reserved(st) + amount),
                 !.Reservation =
                     Put(@, game_id, [total |-> amount, remaining |-> amount])],
              [type |-> "Reserved", game_id |-> game_id, amount |-> amount])

\* Variant: the reservation is created, the reserved total is not raised.
reserve_without_total_reserved(st, admin, game_id, amount, auth) ==
    IF pool_require_admin(st, admin, auth) # Ok
        THEN Fail(st, pool_require_admin(st, admin, auth))
    ELSE IF amount <= 0 THEN Fail(st, "InvalidAmount")
    ELSE IF game_id \in DOMAIN st.Reservation THEN Fail(st, "GameAlreadyReserved")
    ELSE IF amount > get_available(st) THEN Fail(st, "InsufficientFunds")
    ELSE Done([st EXCEPT
                 !.Available = Some(get_available(st) - amount),
                 !.Reservation =
                     Put(@, game_id, [total |-> amount, remaining |-> amount])],
              [type |-> "Reserved", game_id |-> game_id, amount |-> amount])

\* Variant: reserve without the check on the sign of amount.
reserve_any_amount(st, admin, game_id, amount, auth) ==
    IF pool_require_initialized(st) # Ok THEN Fail(st, pool_require_initialized(st))
    ELSE IF pool_require_admin(st, admin, auth) # Ok
        THEN Fail(st, pool_require_admin(st, admin, auth))
    ELSE IF game_id \in DOMAIN st.Reservation THEN Fail(st, "GameAlreadyReserved")
    ELSE IF amount > get_available(st) THEN Fail(st, "InsufficientFunds")
    ELSE LET new_available == checked_sub(get_available(st), amount)
             new_total_reserved == checked_add(get_total_reserved(st), amount)
         IN  IF new_available = Nothing \/ new_total_reserved = Nothing
                 THEN Fail(st, "Overflow")
             ELSE Done([st EXCEPT
                          !.Available = new_available,
                          !.TotalReserved = new_total_reserved,
                          !.Reservation =
                              Put(@, game_id, [total |-> amount, remaining |-> amount])],
                       [type |-> "Reserved", game_id |-> game_id, amount |-> amount])

\* Variant: reserve earmarks the amount without taking it from available.
reserve_keeps_available(st, admin, game_id, amount, auth) ==
    IF pool_require_initialized(st) # Ok THEN Fail(st, pool_require_initialized(st))
    ELSE IF pool_require_admin(st, admin, auth) # Ok
        THEN Fail(st, pool_require_admin(st, admin, auth))
    ELSE IF amount <= 0 THEN Fail(st, "InvalidAmount")
    ELSE IF game_id \in DOMAIN st.Reservation THEN Fail(st, "GameAlreadyReserved")
    ELSE IF amount > get_available(st) THEN Fail(st, "InsufficientFunds")
    ELSE LET new_available == checked_sub(get_available(st), amount)
             new_total_reserved == checked_add(get_total_reserved(st), amount)
         IN  IF new_available = Nothing \/ new_total_reserved = Nothing
                 THEN Fail(st, "Overflow")
             ELSE Done([st EXCEPT
                          !.TotalReserved = new_total_reserved,
                          !.Reservation =
                              Put(@, game_id, [total |-> amount, remaining |-> amount])],
                       [type |-> "Reserved", game_id |-> game_id, amount |-> amount])

reserve(st, admin, game_id, amount, auth) ==
    IF pool_require_initialized(st) # Ok THEN Fail(st, pool_require_initialized(st))
    ELSE IF pool_require_admin(st, admin, auth) # Ok
        THEN Fail(st, pool_require_admin(st, admin, auth))
    ELSE IF amount <= 0 THEN Fail(st, "InvalidAmount")
    ELSE IF game_id \in DOMAIN st.Reservation THEN Fail(st, "GameAlreadyReserved")
    ELSE IF amount > get_available(st) THEN Fail(st, "InsufficientFunds")
    ELSE LET new_available == checked_sub(get_available(st), amount)
             new_total_reserved == checked_add(get_total_reserved(st), amount)
         IN  IF new_available = Nothing \/ new_total_reserved = Nothing
                 THEN Fail(st, "Overflow")
             ELSE Done([st EXCEPT
                          !.Available = new_available,
                          !.TotalReserved = new_total_reserved,
                          !.Reservation =
                              Put(@, game_id, [total |-> amount, remaining |-> amount])],
                       [type |-> "Reserved", game_id |-> game_id, amount |-> amount])

\* Variant: the reclaimed amount is credited to available, the reserved
\* total is left alone.
release_keeps_total_reserved(st, admin, game_id, amount, auth) ==
    IF pool_require_admin(st, admin, auth) # Ok
        THEN Fail(st, pool_require_admin(st, admin, auth))
    ELSE IF amount <= 0 THEN Fail(st, "InvalidAmount")
    ELSE IF game_id \notin DOMAIN st.Reservation THEN Fail(st, "ReservationNotFound")
    ELSE IF amount > st.Reservation[game_id].remaining
        THEN Fail(st, "PayoutExceedsReservation")
    ELSE LET remaining == st.Reservation[game_id].remaining - amount
         IN  Done([st EXCEPT
                      !.Available = Some(get_available(st) + amount),
                      !.Reservation =
                          IF remaining = 0 THEN Remove(@, game_id)
                          ELSE [@ EXCEPT ![game_id].remaining = remaining]],
                  [type |-> "Released", game_id |-> game_id, amount |-> amount])

\* Variant: the released amount is checked against the reservation's total.
release_check_against_total(st, admin, game_id, amount, auth) ==
    IF pool_require_admin(st, admin, auth) # Ok
        THEN Fail(st, pool_require_admin(st, admin, auth))
    ELSE IF amount <= 0 THEN Fail(st, "InvalidAmount")
    ELSE IF game_id \notin DOMAIN st.Reservation THEN Fail(st, "ReservationNotFound")
    ELSE IF amount > st.Reservation[game_id].total
        THEN Fail(st, "PayoutExceedsReservation")
    ELSE LET remaining == st.Reservation[game_id].remaining - amount
         IN  Done([st EXCEPT
                      !.Available = Some(get_available(st) + amount),
                      !.TotalReserved = Some(get_total_reserved(st) - amount),
                      !.Reservation =
                          IF remaining = 0 THEN Remove(@, game_id)
                          ELSE [@ EXCEPT ![game_id].remaining = remaining]],
                  [type |-> "Released", game_id |-> game_id, amount |-> amount])

\* Variant: a reservation drawn down to zero is stored, not removed.
release_keeps_empty_reservation(st, admin, game_id, amount, auth) ==
    IF pool_require_admin(st, admin, auth) # Ok
        THEN Fail(st, pool_require_admin(st, admin, auth))
    ELSE IF amount <= 0 THEN Fail(st, "InvalidAmount")
    ELSE IF game_id \notin DOMAIN st.Reservation THEN Fail(st, "ReservationNotFound")
    ELSE IF amount > st.Reservation[game_id].remaining
        THEN Fail(st, "PayoutExceedsReservation")
    ELSE Done([st EXCEPT
                 !.Available = Some(get_available(st) + amount),
                 !.TotalReserved = Some(get_total_reserved(st) - amount),
                 !.Reservation = [@ EXCEPT ![game_id].remaining = @ - amount]],
              [type |-> "Released", game_id |-> game_id, amount |-> amount])

release(st, admin, game_id, amount, auth) ==
    IF pool_require_initialized(st) # Ok THEN Fail(st, pool_require_initialized(st))
    ELSE IF pool_require_admin(st, admin, auth) # Ok
        THEN Fail(st, pool_require_admin(st, admin, auth))
    ELSE IF amount <= 0 THEN Fail(st, "InvalidAmount")
    ELSE IF game_id \notin DOMAIN st.Reservation THEN Fail(st, "ReservationNotFound")
    ELSE IF amount > st.Reservation[game_id].remaining
        THEN Fail(st, "PayoutExceedsReservation")
    ELSE LET remaining == checked_sub(st.Reservation[game_id].remaining, amount)
             new_available == checked_add(get_available(st), amount)
             new_total_reserved == checked_sub(get_total_reserved(st), amount)
         IN  IF remaining = Nothing \/ new_available = Nothing
                    \/ new_total_reserved = Nothing
                 THEN Fail(st, "Overflow")
             ELSE Done([st EXCEPT
                          !.Available = new_available,
                          !.TotalReserved = new_total_reserved,
                          !.Reservation =
                              IF remaining[1] = 0 THEN Remove(@, game_id)
                              ELSE [@ EXCEPT ![game_id].remaining = remaining[1]]],
                       [type |-> "Released", game_id |-> game_id, amount |-> amount])

\* Variant: the drawn amount is checked against the reservation's total.
payout_check_against_total(st, admin, game_id, amount, auth) ==
    IF pool_require_admin(st, admin, auth) # Ok THEN pool_require_admin(st, admin, auth)
    ELSE IF amount <= 0 THEN "InvalidAmount"
    ELSE IF game_id \notin DOMAIN st.Reservation THEN "ReservationNotFound"
    ELSE IF amount > st.Reservation[game_id].total THEN "PayoutExceedsReservation"
    ELSE Ok

\* payout up to its last early return: Ok, or the error returned.
payout_check(st, admin, game_id, amount, auth) ==
    IF pool_require_initialized(st) # Ok THEN pool_require_initialized(st)
    ELSE IF pool_require_admin(st, admin, auth) # Ok
        THEN pool_require_admin(st, admin, auth)
    ELSE IF amount <= 0 THEN "InvalidAmount"
    ELSE IF game_id \notin DOMAIN st.Reservation THEN "ReservationNotFound"
    ELSE IF amount > st.Reservation[game_id].remaining THEN "PayoutExceedsReservation"
    ELSE IF checked_sub(st.Reservation[game_id].remaining, amount) = Nothing
            \/ checked_sub(get_total_reserved(st), amount) = Nothing
        THEN "Overflow"
    ELSE Ok

\* Variant: nothing is written before the transfer.
payout_writes_nothing_before_transfer(st, game_id, amount) == st

\* Variant: the reservation shrinks, the reserved total is left alone.
payout_keeps_total_reserved(st, game_id, amount) ==
    LET remaining == st.Reservation[game_id].remaining - amount
    IN  [st EXCEPT
           !.Reservation =
               IF remaining = 0 THEN Remove(@, game_id)
               ELSE [@ EXCEPT ![game_id].remaining = remaining]]

\* Variant: the amount paid out is also credited to available, as release
\* does.
payout_credits_available(st, game_id, amount) ==
    LET remaining == st.Reservation[game_id].remaining - amount
    IN  [st EXCEPT
           !.Available = Some(get_available(st) + amount),
           !.TotalReserved = Some(get_total_reserved(st) - amount),
           !.Reservation =
               IF remaining = 0 THEN Remove(@, game_id)
               ELSE [@ EXCEPT ![game_id].remaining = remaining]]

\* Variant: a reservation paid down to zero is stored, not removed.
payout_keeps_empty_reservation(st, game_id, amount) ==
    [st EXCEPT
       !.TotalReserved = Some(get_total_reserved(st) - amount),
       !.Reservation = [@ EXCEPT ![game_id].remaining = @ - amount]]

\* What payout writes before it invokes the token: the reserved total, and
\* the reservation, shrunk or removed.
payout_before_transfer(st, game_id, amount) ==
    LET remaining == st.Reservation[game_id].remaining - amount
    IN  [st EXCEPT
           !.TotalReserved = Some(get_total_reserved(st) - amount),
           !.Reservation =
               IF remaining = 0 THEN Remove(@, game_id)
               ELSE [@ EXCEPT ![game_id].remaining = remaining]]

\* Variant: a failed transfer leaves the writes made before it in place.
payout_keeps_debit_on_abort(st, bal, admin, to, game_id, amount, auth, accepted) ==
    IF payout_check(st, admin, game_id, amount, auth) # Ok
        THEN PFail(st, bal, payout_check(st, admin, game_id, amount, auth))
    ELSE LET debited == payout_before_transfer(st, game_id, amount)
             moved == token_transfer(bal, PoolAddress, to, amount, accepted)
         IN  IF moved = Nothing THEN PFail(debited, bal, TransferAborted)
             ELSE PDone(debited, moved[1],
                        [type |-> "PaidOut", to |-> to, game_id |-> game_id,
                         amount |-> amount])

payout(st, bal, admin, to, game_id, amount, auth, accepted) ==
    IF payout_check(st, admin, game_id, amount, auth) # Ok
        THEN PFail(st, bal, payout_check(st, admin, game_id, amount, auth))
    ELSE LET debited == payout_before_transfer(st, game_id, amount)
             moved == token_transfer(bal, PoolAddress, to, amount, accepted)
         IN  IF moved = Nothing THEN PFail(st, bal, TransferAborted)
             ELSE PDone(debited, moved[1],
                        [type |-> "PaidOut", to |-> to, game_id |-> game_id,
                         amount |-> amount])

get_pool_state(st) ==
    IF pool_require_initialized(st) # Ok
        THEN [res |-> pool_require_initialized(st), state |-> None]
    ELSE [res |-> Ok,
          state |-> [available |-> get_available(st), reserved |-> get_total_reserved(st)]]

(***************************************************************************)
(* Prize pool: one action per entry point.  audit records history only:    *)
(* funded and paid are the sums of the amounts of the successful fund and  *)
(* payout calls; games[g] is the total of g's open reservation and drawn,  *)
(* the sum of the amounts payout and release have taken from it since      *)
(* reserve created it.  When the reservation is deleted with drawn equal   *)
(* reserved is the set of the game ids reserve has succeeded for.          *)
(***************************************************************************)
NoGame == [total |-> 0, drawn |-> 0]

Drawn(a, st, game_id, amount) ==
    LET g == [a.games[game_id] EXCEPT !.drawn = @ + amount]
    IN  [a EXCEPT !.games[game_id] =
            IF game_id \notin DOMAIN st.Reservation /\ g.drawn = g.total
            THEN NoGame ELSE g]

PoolReturn(op, res) == pool_last' = [op |-> op, res |-> res]

PoolInitCall ==
    \E admin \in {"admin"}, auth \in BOOLEAN :
        LET r == pool_init(pool, admin, "token", auth)
        IN  /\ pool' = r.st
            /\ PoolReturn("init", r.res)
            /\ UNCHANGED <<balance, audit, frames, rng_vars, ext_vars>>

Fund ==
    \E from \in Funders, amount \in Amounts, auth \in BOOLEAN, accepted \in BOOLEAN :
        LET r == fund(pool, balance, from, amount, auth, accepted)
        IN  /\ audit.funded + amount <= MaxTotalFunded
            /\ pool' = r.st
            /\ balance' = r.bal
            /\ audit' = IF r.res = Ok THEN [audit EXCEPT !.funded = @ + amount] ELSE audit
            /\ PoolReturn("fund", r.res)
            /\ UNCHANGED <<frames, rng_vars, ext_vars>>

Reserve ==
    \E admin \in Callers, game_id \in GameIds, amount \in Amounts, auth \in BOOLEAN :
        LET r == reserve(pool, admin, game_id, amount, auth)
        IN  /\ pool' = r.st
            /\ audit' = IF r.res = Ok
                        THEN [audit EXCEPT !.games[game_id] =
                                  [total |-> amount, drawn |-> 0],
                                           !.reserved = @ \cup {game_id}]
                        ELSE audit
            /\ PoolReturn("reserve", r.res)
            /\ UNCHANGED <<balance, frames, rng_vars, ext_vars>>

Release ==
    \E admin \in Callers, game_id \in GameIds, amount \in Amounts, auth \in BOOLEAN :
        LET r == release(pool, admin, game_id, amount, auth)
        IN  /\ pool' = r.st
            /\ audit' = IF r.res = Ok
                        THEN Drawn(audit, r.st, game_id, amount)
                        ELSE audit
            /\ PoolReturn("release", r.res)
            /\ UNCHANGED <<balance, frames, rng_vars, ext_vars>>

Payout ==
    \E admin \in Callers, to \in Recipients, game_id \in GameIds, amount \in Amounts,
       auth \in BOOLEAN, accepted \in BOOLEAN :
        LET r == payout(pool, balance, admin, to, game_id, amount, auth, accepted)
        IN  /\ pool' = r.st
            /\ balance' = r.bal
            /\ audit' = IF r.res = Ok
                        THEN [Drawn(audit, r.st, game_id, amount) EXCEPT !.paid = @ + amount]
                        ELSE audit
            /\ PoolReturn("payout", r.res)
            /\ UNCHANGED <<frames, rng_vars, ext_vars>>

GetPoolState ==
    /\ PoolReturn("get_pool_state", get_pool_state(pool).res)
    /\ UNCHANGED <<pool, balance, audit, frames, rng_vars, ext_vars>>

(***************************************************************************)
(* payout with its token transfer as a step of its own.  PayoutEnter runs  *)
(* payout up to the call of token.transfer; while the transfer is in       *)
(* progress the token contract may invoke the pool again (any action       *)
(* above, or a nested payout); PayoutReturn is the transfer returning and  *)
(* payout finishing.  A transfer that aborts discards every write made     *)
(* since payout was entered, nested invocations included: what it leaves   *)
(* is the state before PayoutEnter with payout failed, which is the step   *)
(* Payout takes with a refused transfer.  So frames need not keep the      *)
(* storage to roll back to, and the states seen inside an aborting         *)
(* transfer are those seen inside a returning one.                         *)
(***************************************************************************)
MaxDepth == 2

InFlight == [to |-> "winner", game_id |-> 0, amount |-> 0]

PayoutEnter ==
    \E admin \in Callers, to \in Recipients, game_id \in GameIds, amount \in Amounts,
       auth \in BOOLEAN :
        /\ Len(frames) < MaxDepth
        /\ payout_check(pool, admin, game_id, amount, auth) = Ok
        /\ pool' = payout_before_transfer(pool, game_id, amount)
        /\ audit' = Drawn(audit, pool', game_id, amount)
        /\ frames' = Append(frames, [InFlight EXCEPT !.to = to, !.game_id = game_id,
                                                     !.amount = amount])
        /\ PoolReturn("payout", "InTransfer")
        /\ UNCHANGED <<balance, rng_vars, ext_vars>>

PayoutReturn ==
    /\ frames # <<>>
    /\ LET f == frames[Len(frames)]
           moved == token_transfer(balance, PoolAddress, f.to, f.amount, TRUE)
       IN  /\ moved # Nothing
           /\ frames' = SubSeq(frames, 1, Len(frames) - 1)
           /\ balance' = moved[1]
           /\ audit' = [audit EXCEPT !.paid = @ + f.amount]
           /\ PoolReturn("payout", Ok)
    /\ UNCHANGED <<pool, rng_vars, ext_vars>>

PoolNext ==
    \/ PoolInitCall
    \/ Fund
    \/ Reserve
    \/ Release
    \/ Payout
    \/ GetPoolState

ReentrantNext ==
    \/ PoolInitCall
    \/ Fund
    \/ Reserve
    \/ Release
    \/ Payout
    \/ GetPoolState
    \/ PayoutEnter
    \/ PayoutReturn

(***************************************************************************)
(* The pool with a token that does not keep its balances within i128.      *)
(* init takes any contract address as the token, so the amounts fund       *)
(* receives can add up to more than an i128 holds; this is the only way    *)
(* the checked additions can fail.  The actions are those above with       *)
(* amounts at the ends of the i128 range.                                  *)
(***************************************************************************)
WideSupply == 2 * I128_MAX + 1
WideAmounts == {0, I128_MAX - 1, I128_MAX}

WideFund ==
    \E from \in {"funder"}, amount \in WideAmounts, auth \in BOOLEAN,
       accepted \in BOOLEAN :
        LET r == fund(pool, balance, from, amount, auth, accepted)
        IN  /\ pool' = r.st
            /\ balance' = r.bal
            /\ audit' = IF r.res = Ok THEN [audit EXCEPT !.funded = @ + amount] ELSE audit
            /\ PoolReturn("fund", r.res)
            /\ UNCHANGED <<frames, rng_vars, ext_vars>>

WideReserve ==
    \E admin \in Callers, game_id \in GameIds, amount \in WideAmounts, auth \in BOOLEAN :
        LET r == reserve(pool, admin, game_id, amount, auth)
        IN  /\ pool' = r.st
            /\ audit' = IF r.res = Ok
                        THEN [audit EXCEPT !.games[game_id] =
                                  [total |-> amount, drawn |-> 0],
                                           !.reserved = @ \cup {game_id}]
                        ELSE audit
            /\ PoolReturn("reserve", r.res)
            /\ UNCHANGED <<balance, frames, rng_vars, ext_vars>>

WideRelease ==
    \E admin \in Callers, game_id \in GameIds, amount \in WideAmounts, auth \in BOOLEAN :
        LET r == release(pool, admin, game_id, amount, auth)
        IN  /\ pool' = r.st
            /\ audit' = IF r.res = Ok
                        THEN Drawn(audit, r.st, game_id, amount)
                        ELSE audit
            /\ PoolReturn("release", r.res)
            /\ UNCHANGED <<balance, frames, rng_vars, ext_vars>>

WidePayout ==
    \E admin \in Callers, to \in Recipients, game_id \in GameIds,
       amount \in WideAmounts, auth \in BOOLEAN, accepted \in BOOLEAN :
        LET r == payout(pool, balance, admin, to, game_id, amount, auth, accepted)
        IN  /\ pool' = r.st
            /\ balance' = r.bal
            /\ audit' = IF r.res = Ok
                        THEN [Drawn(audit, r.st, game_id, amount) EXCEPT !.paid = @ + amount]
                        ELSE audit
            /\ PoolReturn("payout", r.res)
            /\ UNCHANGED <<frames, rng_vars, ext_vars>>

WideNext ==
    \/ PoolInitCall
    \/ WideFund
    \/ WideReserve
    \/ WideRelease
    \/ WidePayout
    \/ GetPoolState

(***************************************************************************)
(* Coin flip and dice roll                                                 *)
(*                                                                         *)
(* Both games hold their wagers themselves and share the random generator: *)
(* a game id is the id of its randomness request.  The wagers of the model *)
(* are far below the i128 range, so the Overflow returns of the payout     *)
(* arithmetic are out of reach and the products are written as they are.   *)
(***************************************************************************)
FlipAddress == "flip"
DiceAddress == "dice"
Players == {"player"}
RoundIds == {1, 2}

\* min_wager, max_wager and house_edge_bps as the test setups pass them to init.
HouseConfig == [min_wager |-> 10, max_wager |-> 1000, house_edge_bps |-> 250]

BASIS_POINTS_DIVISOR == 10000
HEADS == 0
TAILS == 1
MIN_FACE == 1
MAX_FACE == 6
DIE_SIDES == 6
PAYOUT_MULTIPLIER == 6

\* Inputs: one amount for each branch of the wager checks, a side and a
\* prediction out of range next to the valid ones.
Wagers == {0, 5, 100, 2000}
Sides == {HEADS, TAILS, 2}
Predictions == {0, 3, 7}

GameDeployed ==
    [Admin |-> None, Token |-> None, RngContract |-> None, MinWager |-> None,
     MaxWager |-> None, HouseEdgeBps |-> None, Game |-> <<>>]

GFail(st, rg, bal, e) == [res |-> e, st |-> st, rng |-> rg, bal |-> bal]

flip_init(st, admin, rng_contract, token, min_wager, max_wager, house_edge_bps, auth) ==
    IF st.Admin # None THEN [res |-> "AlreadyInitialized", st |-> st]
    ELSE IF ~auth THEN [res |-> HostTrap, st |-> st]
    ELSE [res |-> Ok,
          st |-> [st EXCEPT !.Admin = admin, !.Token = token,
                            !.RngContract = rng_contract, !.MinWager = min_wager,
                            !.MaxWager = max_wager, !.HouseEdgeBps = house_edge_bps]]

\* Variant: place_bet goes on when request_random fails.
place_bet_ignoring_request(st, rg, bal, player, side, wager, game_id, auth) ==
    IF st.Admin = None THEN GFail(st, rg, bal, "NotInitialized")
    ELSE IF ~auth THEN GFail(st, rg, bal, HostTrap)
    ELSE IF side # HEADS /\ side # TAILS THEN GFail(st, rg, bal, "InvalidSide")
    ELSE IF wager <= 0 THEN GFail(st, rg, bal, "InvalidAmount")
    ELSE IF wager < st.MinWager THEN GFail(st, rg, bal, "WagerTooLow")
    ELSE IF wager > st.MaxWager THEN GFail(st, rg, bal, "WagerTooHigh")
    ELSE IF game_id \in DOMAIN st.Game THEN GFail(st, rg, bal, "GameAlreadyExists")
    ELSE LET moved == token_transfer(bal, player, FlipAddress, wager, TRUE)
             requested == request_random(rg, FlipAddress, game_id, 2, TRUE)
         IN  IF moved = Nothing THEN GFail(st, rg, bal, TransferAborted)
             ELSE [res |-> Ok,
                   st |-> [st EXCEPT !.Game =
                              Put(@, game_id,
                                  [player |-> player, side |-> side, wager |-> wager,
                                   resolved |-> FALSE, won |-> FALSE, payout |-> 0])],
                   rng |-> requested.st,
                   bal |-> moved[1]]

\* The sub-calls (token transfer, request_random) abort the whole invocation
\* when they fail: nothing of it is kept.
place_bet(st, rg, bal, player, side, wager, game_id, auth) ==
    IF st.Admin = None THEN GFail(st, rg, bal, "NotInitialized")
    ELSE IF ~auth THEN GFail(st, rg, bal, HostTrap)
    ELSE IF side # HEADS /\ side # TAILS THEN GFail(st, rg, bal, "InvalidSide")
    ELSE IF wager <= 0 THEN GFail(st, rg, bal, "InvalidAmount")
    ELSE IF wager < st.MinWager THEN GFail(st, rg, bal, "WagerTooLow")
    ELSE IF wager > st.MaxWager THEN GFail(st, rg, bal, "WagerTooHigh")
    ELSE IF game_id \in DOMAIN st.Game THEN GFail(st, rg, bal, "GameAlreadyExists")
    ELSE LET moved == token_transfer(bal, player, FlipAddress, wager, TRUE)
             requested == request_random(rg, FlipAddress, game_id, 2, TRUE)
         IN  IF moved = Nothing THEN GFail(st, rg, bal, TransferAborted)
             ELSE IF requested.res # Ok THEN GFail(st, rg, bal, HostTrap)
             ELSE [res |-> Ok,
                   st |-> [st EXCEPT !.Game =
                              Put(@, game_id,
                                  [player |-> player, side |-> side, wager |-> wager,
                                   resolved |-> FALSE, won |-> FALSE, payout |-> 0])],
                   rng |-> requested.st,
                   bal |-> moved[1]]

\* Variant: resolve_bet without the check of the resolved flag.
resolve_bet_any_time(st, rg, bal, game_id) ==
    IF st.Admin = None THEN GFail(st, rg, bal, "NotInitialized")
    ELSE IF game_id \notin DOMAIN st.Game THEN GFail(st, rg, bal, "GameNotFound")
    ELSE IF get_result(rg, game_id).res # Ok THEN GFail(st, rg, bal, "RngNotFulfilled")
    ELSE LET game == st.Game[game_id]
             outcome == get_result(rg, game_id).entry.result
             won == outcome = game.side
             fee == (game.wager * st.HouseEdgeBps) \div BASIS_POINTS_DIVISOR
             payout_amount == IF won THEN game.wager * 2 - fee ELSE 0
             moved == IF won
                      THEN token_transfer(bal, FlipAddress, game.player, payout_amount, TRUE)
                      ELSE Some(bal)
         IN  IF moved = Nothing THEN GFail(st, rg, bal, TransferAborted)
             ELSE [res |-> Ok,
                   st |-> [st EXCEPT !.Game[game_id] =
                              [game EXCEPT !.resolved = TRUE, !.won = won,
                                           !.payout = payout_amount]],
                   rng |-> rg,
                   bal |-> moved[1]]

\* Variant: resolve_bet reads a request that is not fulfilled as outcome 0.
resolve_bet_without_result(st, rg, bal, game_id) ==
    IF st.Admin = None THEN GFail(st, rg, bal, "NotInitialized")
    ELSE IF game_id \notin DOMAIN st.Game THEN GFail(st, rg, bal, "GameNotFound")
    ELSE IF st.Game[game_id].resolved THEN GFail(st, rg, bal, "GameAlreadyResolved")
    ELSE LET game == st.Game[game_id]
             outcome == IF get_result(rg, game_id).res # Ok THEN 0
                        ELSE get_result(rg, game_id).entry.result
             won == outcome = game.side
             fee == (game.wager * st.HouseEdgeBps) \div BASIS_POINTS_DIVISOR
             payout_amount == IF won THEN game.wager * 2 - fee ELSE 0
             moved == IF won
                      THEN token_transfer(bal, FlipAddress, game.player, payout_amount, TRUE)
                      ELSE Some(bal)
         IN  IF moved = Nothing THEN GFail(st, rg, bal, TransferAborted)
             ELSE [res |-> Ok,
                   st |-> [st EXCEPT !.Game[game_id] =
                              [game EXCEPT !.resolved = TRUE, !.won = won,
                                           !.payout = payout_amount]],
                   rng |-> rg,
                   bal |-> moved[1]]

\* try_get_result: any error of the random generator reads as not fulfilled.
\* The game is written before the payout transfer; a failed transfer aborts
\* the invocation and the write with it.
resolve_bet(st, rg, bal, game_id) ==
    IF st.Admin = None THEN GFail(st, rg, bal, "NotInitialized")
    ELSE IF game_id \notin DOMAIN st.Game THEN GFail(st, rg, bal, "GameNotFound")
    ELSE IF st.Game[game_id].resolved THEN GFail(st, rg, bal, "GameAlreadyResolved")
    ELSE IF get_result(rg, game_id).res # Ok THEN GFail(st, rg, bal, "RngNotFulfilled")
    ELSE LET game == st.Game[game_id]
             outcome == get_result(rg, game_id).entry.result
             won == outcome = game.side
             fee == (game.wager * st.HouseEdgeBps) \div BASIS_POINTS_DIVISOR
             payout_amount == IF won THEN game.wager * 2 - fee ELSE 0
             moved == IF won
                      THEN token_transfer(bal, FlipAddress, game.player, payout_amount, TRUE)
                      ELSE Some(bal)
         IN  IF moved = Nothing THEN GFail(st, rg, bal, TransferAborted)
             ELSE [res |-> Ok,
                   st |-> [st EXCEPT !.Game[game_id] =
                              [game EXCEPT !.resolved = TRUE, !.won = won,
                                           !.payout = payout_amount]],
                   rng |-> rg,
                   bal |-> moved[1]]

dice_init(st, admin, rng_contract, token, min_wager, max_wager, house_edge_bps, auth) ==
    IF st.Admin # None THEN [res |-> "AlreadyInitialized", st |-> st]
    ELSE IF ~auth THEN [res |-> HostTrap, st |-> st]
    ELSE [res |-> Ok,
          st |-> [st EXCEPT !.Admin = admin, !.Token = token,
                            !.RngContract = rng_contract, !.MinWager = min_wager,
                            !.MaxWager = max_wager, !.HouseEdgeBps = house_edge_bps]]

roll(st, rg, bal, player, prediction, wager, game_id, auth) ==
    IF st.Admin = None THEN GFail(st, rg, bal, "NotInitialized")
    ELSE IF ~auth THEN GFail(st, rg, bal, HostTrap)
    ELSE IF prediction < MIN_FACE \/ prediction > MAX_FACE
        THEN GFail(st, rg, bal, "InvalidPrediction")
    ELSE IF wager <= 0 THEN GFail(st, rg, bal, "InvalidAmount")
    ELSE IF wager < st.MinWager THEN GFail(st, rg, bal, "WagerTooLow")
    ELSE IF wager > st.MaxWager THEN GFail(st, rg, bal, "WagerTooHigh")
    ELSE IF game_id \in DOMAIN st.Game THEN GFail(st, rg, bal, "GameAlreadyExists")
    ELSE LET moved == token_transfer(bal, player, DiceAddress, wager, TRUE)
             requested == request_random(rg, DiceAddress, game_id, DIE_SIDES, TRUE)
         IN  IF moved = Nothing THEN GFail(st, rg, bal, TransferAborted)
             ELSE IF requested.res # Ok THEN GFail(st, rg, bal, HostTrap)
             ELSE [res |-> Ok,
                   st |-> [st EXCEPT !.Game =
                              Put(@, game_id,
                                  [player |-> player, prediction |-> prediction,
                                   wager |-> wager, resolved |-> FALSE, won |-> FALSE,
                                   result |-> 0, payout |-> 0])],
                   rng |-> requested.st,
                   bal |-> moved[1]]

resolve_roll(st, rg, bal, game_id) ==
    IF st.Admin = None THEN GFail(st, rg, bal, "NotInitialized")
    ELSE IF game_id \notin DOMAIN st.Game THEN GFail(st, rg, bal, "GameNotFound")
    ELSE IF st.Game[game_id].resolved THEN GFail(st, rg, bal, "GameAlreadyResolved")
    ELSE IF get_result(rg, game_id).res # Ok THEN GFail(st, rg, bal, "RngNotFulfilled")
    ELSE LET game == st.Game[game_id]
             die_face == get_result(rg, game_id).entry.result + 1
             won == die_face = game.prediction
             winnings == game.wager * (PAYOUT_MULTIPLIER - 1)
             fee == (winnings * st.HouseEdgeBps) \div BASIS_POINTS_DIVISOR
             payout_amount == IF won THEN game.wager * PAYOUT_MULTIPLIER - fee ELSE 0
             moved == IF won
                      THEN token_transfer(bal, DiceAddress, game.player, payout_amount, TRUE)
                      ELSE Some(bal)
         IN  IF moved = Nothing THEN GFail(st, rg, bal, TransferAborted)
             ELSE [res |-> Ok,
                   st |-> [st EXCEPT !.Game[game_id] =
                              [game EXCEPT !.resolved = TRUE, !.won = won,
                                           !.result = die_face, !.payout = payout_amount]],
                   rng |-> rg,
                   bal |-> moved[1]]

(***************************************************************************)
(* Coin flip and dice roll: one action per entry point.                    *)
(***************************************************************************)
ExtReturn(op, res) == ext_last' = [op |-> op, res |-> res]

FlipInitCall ==
    \E auth \in BOOLEAN :
        LET r == flip_init(flip, "admin", "rng", "token", HouseConfig.min_wager,
                           HouseConfig.max_wager, HouseConfig.house_edge_bps, auth)
        IN  /\ flip' = r.st
            /\ ExtReturn("flip.init", r.res)
            /\ UNCHANGED <<dice, trs, ledger, rng_vars, pool_vars>>

PlaceBet ==
    \E player \in Players, side \in Sides, wager \in Wagers, game_id \in RoundIds,
       auth \in BOOLEAN :
        LET r == place_bet(flip, rng, ledger, player, side, wager, game_id, auth)
        IN  /\ flip' = r.st
            /\ rng' = r.rng
            /\ ledger' = r.bal
            /\ ExtReturn("place_bet", r.res)
            /\ UNCHANGED <<rng_last, dice, trs, pool_vars>>

ResolveBet ==
    \E game_id \in RoundIds :
        LET r == resolve_bet(flip, rng, ledger, game_id)
        IN  /\ flip' = r.st
            /\ ledger' = r.bal
            /\ ExtReturn("resolve_bet", r.res)
            /\ UNCHANGED <<dice, trs, rng_vars, pool_vars>>

DiceInitCall ==
    \E auth \in BOOLEAN :
        LET r == dice_init(dice, "admin", "rng", "token", HouseConfig.min_wager,
                           HouseConfig.max_wager, HouseConfig.house_edge_bps, auth)
        IN  /\ dice' = r.st
            /\ ExtReturn("dice.init", r.res)
            /\ UNCHANGED <<flip, trs, ledger, rng_vars, pool_vars>>

Roll ==
    \E player \in Players, prediction \in Predictions, wager \in Wagers,
       game_id \in RoundIds, auth \in BOOLEAN :
        LET r == roll(dice, rng, ledger, player, prediction, wager, game_id, auth)
        IN  /\ dice' = r.st
            /\ rng' = r.rng
            /\ ledger' = r.bal
            /\ ExtReturn("roll", r.res)
            /\ UNCHANGED <<rng_last, flip, trs, pool_vars>>

ResolveRoll ==
    \E game_id \in RoundIds :
        LET r == resolve_roll(dice, rng, ledger, game_id)
        IN  /\ dice' = r.st
            /\ ledger' = r.bal
            /\ ExtReturn("resolve_roll", r.res)
            /\ UNCHANGED <<flip, trs, rng_vars, pool_vars>>

\* The admin of the random generator puts a game contract on the whitelist;
\* the oracle answers a request.
AuthorizeGame ==
    \E caller \in {FlipAddress, DiceAddress} :
        RngInvoke("authorize", authorize(rng, "admin", caller, TRUE))

OracleAnswers ==
    \E id \in RoundIds, s \in ServerSeeds :
        RngInvoke("fulfill_random", fulfill_random(rng, "oracle", id, s, TRUE))

GameNext ==
    \/ RngInitCall
    \/ AuthorizeGame
    \/ OracleAnswers
    \/ FlipInitCall
    \/ PlaceBet
    \/ ResolveBet
    \/ DiceInitCall
    \/ Roll
    \/ ResolveRoll

(***************************************************************************)
(* Treasury                                                                *)
(*                                                                         *)
(* The four counters are persistent entries read with unwrap_or(0): an     *)
(* absent counter and a counter of 0 read alike and are both held as 0.    *)
(* The Processed* keys are held as the sets of the operations marked.      *)
(***************************************************************************)
TreasuryAddress == "treasury"
TreasurySupply == 6
Depositors == {"depositor", "recipient"}
Symbols == {"s1", "s2"}
TreasuryAmounts == {0, 1, TreasurySupply}

TreasuryDeployed ==
    [Admin |-> None, Token |-> None, Paused |-> FALSE, Available |-> 0,
     TotalDeposited |-> 0, TotalAllocated |-> 0, TotalReleased |-> 0,
     ProcessedDeposit |-> {}, ProcessedAllocation |-> {}, ProcessedRelease |-> {}]

TFail(st, bal, e) == [res |-> e, st |-> st, bal |-> bal]

treasury_init(st, admin, token_address, auth) ==
    IF st.Admin # None THEN [res |-> "AlreadyInitialized", st |-> st]
    ELSE IF ~auth THEN [res |-> HostTrap, st |-> st]
    ELSE [res |-> Ok,
          st |-> [st EXCEPT !.Admin = admin, !.Token = token_address,
                            !.Paused = FALSE, !.Available = 0, !.TotalDeposited = 0,
                            !.TotalAllocated = 0, !.TotalReleased = 0]]

\* get_admin panics when no admin is stored.
treasury_require_admin(st, caller, auth) ==
    IF st.Admin = None THEN HostTrap
    ELSE IF ~auth THEN HostTrap
    ELSE IF caller # st.Admin THEN "NotAuthorized"
    ELSE Ok

pause(st, admin, auth) ==
    IF treasury_require_admin(st, admin, auth) # Ok
        THEN [res |-> treasury_require_admin(st, admin, auth), st |-> st]
    ELSE IF st.Paused THEN [res |-> "AlreadyPaused", st |-> st]
    ELSE [res |-> Ok, st |-> [st EXCEPT !.Paused = TRUE]]

unpause(st, admin, auth) ==
    IF treasury_require_admin(st, admin, auth) # Ok
        THEN [res |-> treasury_require_admin(st, admin, auth), st |-> st]
    ELSE IF ~st.Paused THEN [res |-> "NotPaused", st |-> st]
    ELSE [res |-> Ok, st |-> [st EXCEPT !.Paused = FALSE]]

\* Variant: deposit without the check of the ProcessedDeposit key.
deposit_any_key(st, bal, from, amount, reason, auth) ==
    IF st.Admin = None THEN TFail(st, bal, "NotInitialized")
    ELSE IF st.Paused THEN TFail(st, bal, "ContractPaused")
    ELSE IF amount <= 0 THEN TFail(st, bal, "InvalidAmount")
    ELSE IF ~auth THEN TFail(st, bal, HostTrap)
    ELSE LET moved == token_transfer(bal, from, TreasuryAddress, amount, TRUE)
             available == checked_add(st.Available, amount)
             total_deposited == checked_add(st.TotalDeposited, amount)
         IN  IF moved = Nothing THEN TFail(st, bal, TransferAborted)
             ELSE IF available = Nothing THEN TFail(st, bal, "Overflow")
             ELSE IF total_deposited = Nothing THEN TFail(st, bal, "Overflow")
             ELSE [res |-> Ok,
                   st |-> [st EXCEPT !.Available = available[1],
                                     !.TotalDeposited = total_deposited[1],
                                     !.ProcessedDeposit = @ \cup {<<from, reason>>}],
                   bal |-> moved[1]]

deposit(st, bal, from, amount, reason, auth) ==
    IF st.Admin = None THEN TFail(st, bal, "NotInitialized")
    ELSE IF st.Paused THEN TFail(st, bal, "ContractPaused")
    ELSE IF amount <= 0 THEN TFail(st, bal, "InvalidAmount")
    ELSE IF <<from, reason>> \in st.ProcessedDeposit
        THEN TFail(st, bal, "DuplicateOperation")
    ELSE IF ~auth THEN TFail(st, bal, HostTrap)
    ELSE LET moved == token_transfer(bal, from, TreasuryAddress, amount, TRUE)
             available == checked_add(st.Available, amount)
             total_deposited == checked_add(st.TotalDeposited, amount)
         IN  IF moved = Nothing THEN TFail(st, bal, TransferAborted)
             ELSE IF available = Nothing THEN TFail(st, bal, "Overflow")
             ELSE IF total_deposited = Nothing THEN TFail(st, bal, "Overflow")
             ELSE [res |-> Ok,
                   st |-> [st EXCEPT !.Available = available[1],
                                     !.TotalDeposited = total_deposited[1],
                                     !.ProcessedDeposit = @ \cup {<<from, reason>>}],
                   bal |-> moved[1]]

\* auth: the stored admin authorizes the invocation (require_admin_as_invoker).
allocate(st, bal, to_contract, amount, purpose, auth) ==
    IF st.Admin = None THEN TFail(st, bal, "NotInitialized")
    ELSE IF st.Paused THEN TFail(st, bal, "ContractPaused")
    ELSE IF ~auth THEN TFail(st, bal, HostTrap)
    ELSE IF amount <= 0 THEN TFail(st, bal, "InvalidAmount")
    ELSE IF <<to_contract, purpose>> \in st.ProcessedAllocation
        THEN TFail(st, bal, "DuplicateOperation")
    ELSE IF st.Available < amount THEN TFail(st, bal, "InsufficientFunds")
    ELSE LET new_available == checked_sub(st.Available, amount)
             total_allocated == checked_add(st.TotalAllocated, amount)
             moved == token_transfer(bal, TreasuryAddress, to_contract, amount, TRUE)
         IN  IF new_available = Nothing THEN TFail(st, bal, "Overflow")
             ELSE IF total_allocated = Nothing THEN TFail(st, bal, "Overflow")
             ELSE IF moved = Nothing THEN TFail(st, bal, TransferAborted)
             ELSE [res |-> Ok,
                   st |-> [st EXCEPT !.Available = new_available[1],
                                     !.TotalAllocated = total_allocated[1],
                                     !.ProcessedAllocation =
                                         @ \cup {<<to_contract, purpose>>}],
                   bal |-> moved[1]]

treasury_release(st, bal, to, amount, purpose, auth) ==
    IF st.Admin = None THEN TFail(st, bal, "NotInitialized")
    ELSE IF st.Paused THEN TFail(st, bal, "ContractPaused")
    ELSE IF ~auth THEN TFail(st, bal, HostTrap)
    ELSE IF amount <= 0 THEN TFail(st, bal, "InvalidAmount")
    ELSE IF <<to, purpose>> \in st.ProcessedRelease
        THEN TFail(st, bal, "DuplicateOperation")
    ELSE IF st.Available < amount THEN TFail(st, bal, "InsufficientFunds")
    ELSE LET new_available == checked_sub(st.Available, amount)
             total_released == checked_add(st.TotalReleased, amount)
             moved == token_transfer(bal, TreasuryAddress, to, amount, TRUE)
         IN  IF new_available = Nothing THEN TFail(st, bal, "Overflow")
             ELSE IF total_released = Nothing THEN TFail(st, bal, "Overflow")
             ELSE IF moved = Nothing THEN TFail(st, bal, TransferAborted)
             ELSE [res |-> Ok,
                   st |-> [st EXCEPT !.Available = new_available[1],
                                     !.TotalReleased = total_released[1],
                                     !.ProcessedRelease = @ \cup {<<to, purpose>>}],
                   bal |-> moved[1]]

treasury_state(st) ==
    IF st.Admin = None THEN [res |-> "NotInitialized", state |-> None]
    ELSE LET first == checked_sub(st.TotalDeposited, st.TotalAllocated)
             expected_available ==
                 IF first = Nothing THEN Nothing
                 ELSE checked_sub(first[1], st.TotalReleased)
         IN  IF expected_available = Nothing THEN [res |-> "Overflow", state |-> None]
             ELSE IF expected_available[1] # st.Available
                 THEN [res |-> "Overflow", state |-> None]
             ELSE [res |-> Ok,
                   state |-> [admin |-> st.Admin, token_address |-> st.Token,
                              paused |-> st.Paused,
                              available_balance |-> st.Available,
                              total_deposited |-> st.TotalDeposited,
                              total_allocated |-> st.TotalAllocated,
                              total_released |-> st.TotalReleased]]

(***************************************************************************)
(* Treasury: one action per entry point.                                   *)
(***************************************************************************)
TreasuryInitCall ==
    \E auth \in BOOLEAN :
        LET r == treasury_init(trs, "admin", "token", auth)
        IN  /\ trs' = r.st
            /\ ExtReturn("treasury.init", r.res)
            /\ UNCHANGED <<flip, dice, ledger, rng_vars, pool_vars>>

Pause ==
    \E admin \in {"admin", "depositor"}, auth \in BOOLEAN :
        LET r == pause(trs, admin, auth)
        IN  /\ trs' = r.st
            /\ ExtReturn("pause", r.res)
            /\ UNCHANGED <<flip, dice, ledger, rng_vars, pool_vars>>

Unpause ==
    \E admin \in {"admin", "depositor"}, auth \in BOOLEAN :
        LET r == unpause(trs, admin, auth)
        IN  /\ trs' = r.st
            /\ ExtReturn("unpause", r.res)
            /\ UNCHANGED <<flip, dice, ledger, rng_vars, pool_vars>>

Deposit ==
    \E from \in Depositors, amount \in TreasuryAmounts, reason \in Symbols,
       auth \in BOOLEAN :
        LET r == deposit(trs, ledger, from, amount, reason, auth)
        IN  /\ trs' = r.st
            /\ ledger' = r.bal
            /\ ExtReturn("deposit", r.res)
            /\ UNCHANGED <<flip, dice, rng_vars, pool_vars>>

Allocate ==
    \E to_contract \in {FlipAddress}, amount \in TreasuryAmounts, purpose \in Symbols,
       auth \in BOOLEAN :
        LET r == allocate(trs, ledger, to_contract, amount, purpose, auth)
        IN  /\ trs' = r.st
            /\ ledger' = r.bal
            /\ ExtReturn("allocate", r.res)
            /\ UNCHANGED <<flip, dice, rng_vars, pool_vars>>

TreasuryRelease ==
    \E to \in {"recipient"}, amount \in TreasuryAmounts, purpose \in Symbols,
       auth \in BOOLEAN :
        LET r == treasury_release(trs, ledger, to, amount, purpose, auth)
        IN  /\ trs' = r.st
            /\ ledger' = r.bal
            /\ ExtReturn("release", r.res)
            /\ UNCHANGED <<flip, dice, rng_vars, pool_vars>>

GetTreasuryState ==
    /\ ExtReturn("treasury_state", treasury_state(trs).res)
    /\ UNCHANGED <<flip, dice, trs, ledger, rng_vars, pool_vars>>

TreasuryNext ==
    \/ TreasuryInitCall
    \/ Pause
    \/ Unpause
    \/ Deposit
    \/ Allocate
    \/ TreasuryRelease
    \/ GetTreasuryState

(***************************************************************************)
(* The games and the treasury as deployed, and the token balances their    *)
(* tests mint: the player, the float of each game, the depositor.          *)
(***************************************************************************)
LedgerHolders ==
    Players \cup Depositors \cup {FlipAddress, DiceAddress, TreasuryAddress}
Minted ==
    [h \in LedgerHolders |->
        IF h = "player" THEN 200
        ELSE IF h = FlipAddress THEN 100
        ELSE IF h = DiceAddress THEN 500
        ELSE IF h = "depositor" THEN TreasurySupply
        ELSE 0]
NoExtCall == [op |-> "none", res |-> Ok]

ExtStart ==
    /\ flip = GameDeployed
    /\ dice = GameDeployed
    /\ trs = TreasuryDeployed
    /\ ledger = Minted
    /\ ext_last = NoExtCall

NoCall == [op |-> "none", res |-> Ok, ev |-> NoEvent]
NoPoolCall == [op |-> "none", res |-> Ok]

RngStart ==
    /\ rng = RngDeployed
    /\ rng_last = NoCall

PoolStart ==
    /\ pool = PoolDeployed
    /\ balance = [h \in Holders |-> IF h = "funder" THEN TokenSupply ELSE 0]
    /\ audit = [funded |-> 0, paid |-> 0, games |-> [g \in GameIds |-> NoGame],
                reserved |-> {}]
    /\ frames = <<>>
    /\ pool_last = NoPoolCall

Start == RngStart /\ PoolStart /\ ExtStart

WideStart ==
    /\ RngStart
    /\ pool = PoolDeployed
    /\ balance = [h \in Holders |-> IF h = "funder" THEN WideSupply ELSE 0]
    /\ audit = [funded |-> 0, paid |-> 0, games |-> [g \in GameIds |-> NoGame],
                reserved |-> {}]
    /\ frames = <<>>
    /\ pool_last = NoPoolCall
    /\ ExtStart

RngSpec == Start /\ [][RngNext]_vars

\* The oracle service answers every request it sees: for each id, the
\* oracle's own fulfill_random on that id, while it is pending, is taken
\* if it stays possible.
OracleFulfills(id) ==
    /\ id \in DOMAIN rng.PendingRequest
    /\ \E s \in ServerSeeds :
           RngInvoke("fulfill_random", fulfill_random(rng, rng.Oracle, id, s, TRUE))

RngFairSpec == RngSpec /\ \A id \in RequestIds : WF_vars(OracleFulfills(id))
PoolSpec == Start /\ [][PoolNext]_vars
ReentrantSpec == Start /\ [][ReentrantNext]_vars
WideSpec == WideStart /\ [][WideNext]_vars

\* Both contracts deployed side by side.  They share no storage and never
\* call each other, so a behaviour of the pair interleaves a behaviour of
\* each and what one contract does never depends on the other: PlatformNext
\* lets a behaviour call into one of the two, the other staying as deployed.
RngNeverCalled == rng_last = NoCall
PoolNeverCalled == pool_last = NoPoolCall

PlatformNext ==
    \/ PoolNeverCalled /\ RngInitCall
    \/ PoolNeverCalled /\ Authorize
    \/ PoolNeverCalled /\ Revoke
    \/ PoolNeverCalled /\ RequestRandom
    \/ PoolNeverCalled /\ FulfillRandom
    \/ PoolNeverCalled /\ GetResult
    \/ RngNeverCalled /\ PoolInitCall
    \/ RngNeverCalled /\ Fund
    \/ RngNeverCalled /\ Reserve
    \/ RngNeverCalled /\ Release
    \/ RngNeverCalled /\ Payout
    \/ RngNeverCalled /\ GetPoolState

PlatformSpec == Start /\ [][PlatformNext]_vars
GameSpec == Start /\ [][GameNext]_vars
TreasurySpec == Start /\ [][TreasuryNext]_vars

(***************************************************************************)
(* Prize pool: properties                                                  *)
(***************************************************************************)
RECURSIVE SumRemaining(_)
SumRemaining(reservations) ==
    IF DOMAIN reservations = {} THEN 0
    ELSE LET g == CHOOSE x \in DOMAIN reservations : TRUE
         IN  reservations[g].remaining + SumRemaining(Remove(reservations, g))

RECURSIVE SumInFlight(_)
SumInFlight(fs) ==
    IF fs = <<>> THEN 0 ELSE fs[1].amount + SumInFlight(Tail(fs))

\* C1: after every invocation, successful or failed, available +
\* total_reserved equals the sum of the successful fund amounts minus the sum
\* of the successful payout amounts, which is the pool's token balance.
C1_BooksEqualFundedMinusPaid ==
    /\ get_available(pool) + get_total_reserved(pool) = audit.funded - audit.paid
    /\ balance[PoolAddress] = audit.funded - audit.paid

C1_Witness ==
    /\ pool_last.op = "payout"
    /\ pool_last.res = HostTrap
    /\ audit.paid > 0
    /\ get_available(pool) > 0
    /\ get_total_reserved(pool) > 0

\* C6: for every reservation, from reserve until its deletion, the amounts
\* of the successful payout and release calls against it sum to at most its
\* total: while it is open they sum to total - remaining, and at its
\* deletion to total.  Payout amounts being positive, the tokens paid out
\* against a reservation never exceed the amount reserved.
C6_DrawsWithinReservation ==
    \A g \in GameIds :
        /\ 0 <= audit.games[g].drawn
        /\ audit.games[g].drawn <= audit.games[g].total
        /\ g \in DOMAIN pool.Reservation =>
              /\ pool.Reservation[g].total = audit.games[g].total
              /\ pool.Reservation[g].remaining + audit.games[g].drawn
                    = audit.games[g].total
        /\ g \notin DOMAIN pool.Reservation => audit.games[g] = NoGame

C6_Witness ==
    /\ pool_last.op = "payout"
    /\ pool_last.res = "PayoutExceedsReservation"
    /\ audit.paid > 0
    /\ \E g \in DOMAIN pool.Reservation :
          audit.games[g].drawn > 0 /\ pool.Reservation[g].remaining > 0

\* C7: payout has written the reservation's remaining, total_reserved and
\* the delete-if-zero before the token transfer runs, so whatever the pool
\* is asked while transfers are in progress it answers from books that
\* already exclude every amount in flight: available + total_reserved plus
\* the amounts in flight is funded - paid (the tokens still held),
\* total_reserved is the sum of the remaining amounts, and for every
\* reservation what has been drawn, in-flight draws included, plus what
\* remains is its total, so no nested call draws an amount a second time.
C7_NestedCallsSeeDebitedBooks ==
    /\ get_available(pool) + get_total_reserved(pool) + SumInFlight(frames)
          = audit.funded - audit.paid
    /\ balance[PoolAddress] = audit.funded - audit.paid
    /\ get_available(pool) >= 0
    /\ get_total_reserved(pool) = SumRemaining(pool.Reservation)
    /\ \A g \in GameIds :
          /\ audit.games[g].drawn <= audit.games[g].total
          /\ g \in DOMAIN pool.Reservation =>
                /\ pool.Reservation[g].remaining > 0
                /\ pool.Reservation[g].remaining + audit.games[g].drawn
                      = pool.Reservation[g].total
          /\ g \notin DOMAIN pool.Reservation => audit.games[g] = NoGame

C7_Witness ==
    /\ Len(frames) = 2
    /\ frames[1].game_id = frames[2].game_id
    /\ frames[1].game_id \in DOMAIN pool.Reservation
    /\ pool_last.res = "PayoutExceedsReservation"

\* C12: reserve on a game_id that has an open reservation fails whoever
\* calls and whatever the amount, with GameAlreadyReserved when the admin
\* authorizes it with amount > 0, and writes nothing: available,
\* total_reserved and the existing reservation are unchanged.
C12_ReserveOnOpenGameRejected ==
    \A admin \in Accounts, game_id \in DOMAIN pool.Reservation,
       amount \in Amounts, auth \in BOOLEAN :
        LET r == reserve(pool, admin, game_id, amount, auth)
        IN  /\ r.res # Ok
            /\ r.st = pool
            /\ r.ev = NoEvent
            /\ (admin = pool.Admin /\ auth /\ amount > 0)
                  => r.res = "GameAlreadyReserved"

C12_Witness ==
    /\ pool_last.op = "reserve"
    /\ pool_last.res = "GameAlreadyReserved"
    /\ get_available(pool) > 0
    /\ pool.Reservation # <<>>

\* C13: a payout or a release of more than the reservation's current
\* remaining fails whoever calls, with PayoutExceedsReservation when the
\* admin authorizes it, moves no tokens and writes nothing; this includes
\* amounts within the reservation's total once earlier draws have reduced
\* remaining.
C13_DrawBeyondRemainingRejected ==
    \A admin \in Accounts, to \in Recipients, game_id \in DOMAIN pool.Reservation,
       amount \in Amounts, auth \in BOOLEAN, accepted \in BOOLEAN :
        amount > pool.Reservation[game_id].remaining =>
            LET p == payout(pool, balance, admin, to, game_id, amount, auth, accepted)
                r == release(pool, admin, game_id, amount, auth)
            IN  /\ p.res # Ok /\ p.st = pool /\ p.bal = balance
                /\ r.res # Ok /\ r.st = pool
                /\ (admin = pool.Admin /\ auth) =>
                      /\ p.res = "PayoutExceedsReservation"
                      /\ r.res = "PayoutExceedsReservation"

C13_Witness ==
    /\ pool_last.op = "release"
    /\ pool_last.res = "PayoutExceedsReservation"
    /\ \E g \in DOMAIN pool.Reservation :
          /\ audit.games[g].drawn > 0
          /\ pool.Reservation[g].remaining < pool.Reservation[g].total
          /\ pool.Reservation[g].total \in Amounts

\* C14 as claimed: after every operation available + total_reserved equals
\* the sum of all token inflows received through fund.
C14_BooksEqualInflows ==
    get_available(pool) + get_total_reserved(pool) = audit.funded

\* C14 as amended: available + total_reserved equals the inflows received
\* through fund less the amounts sent out by payout.  It equals the inflows
\* as long as no payout has succeeded, and is below them ever after; fund
\* raises it by its amount, payout lowers it by its amount, reserve and
\* release leave it alone.
C14_BooksEqualInflowsLessPayouts ==
    LET books == get_available(pool) + get_total_reserved(pool)
    IN  /\ books + audit.paid = audit.funded
        /\ audit.paid = 0 => books = audit.funded
        /\ audit.paid > 0 => books < audit.funded
        /\ \A admin \in Callers, to \in Recipients, g \in GameIds, amount \in Amounts :
              LET p == payout(pool, balance, admin, to, g, amount, TRUE, TRUE)
                  r == release(pool, admin, g, amount, TRUE)
                  v == reserve(pool, admin, g, amount, TRUE)
              IN  /\ p.res = Ok =>
                        get_available(p.st) + get_total_reserved(p.st) = books - amount
                  /\ r.res = Ok =>
                        get_available(r.st) + get_total_reserved(r.st) = books
                  /\ v.res = Ok =>
                        get_available(v.st) + get_total_reserved(v.st) = books
        /\ \A from \in Funders, amount \in Amounts :
              LET f == fund(pool, balance, from, amount, TRUE, TRUE)
              IN  f.res = Ok =>
                     get_available(f.st) + get_total_reserved(f.st) = books + amount

C14_Witness ==
    /\ pool_last.op = "payout"
    /\ pool_last.res = Ok
    /\ audit.paid > 0
    /\ get_available(pool) + get_total_reserved(pool) > 0
    /\ get_available(pool) + get_total_reserved(pool) < audit.funded

C17_ReserveMovesAvailableToReserved ==
    pool.Admin # None =>
        \A game_id \in GameIds \ DOMAIN pool.Reservation, amount \in Amounts :
            amount > 0 =>
                LET r == reserve(pool, pool.Admin, game_id, amount, TRUE)
                IN  /\ r.res = "InsufficientFunds" <=> amount > get_available(pool)
                    /\ amount > get_available(pool) => r.st = pool
                    /\ amount <= get_available(pool) =>
                          /\ r.res = Ok
                          /\ r.st.Available = Some(get_available(pool) - amount)
                          /\ r.st.TotalReserved = Some(get_total_reserved(pool) + amount)
                          /\ DOMAIN r.st.Reservation =
                                DOMAIN pool.Reservation \cup {game_id}
                          /\ r.st.Reservation[game_id] =
                                [total |-> amount, remaining |-> amount]
                          /\ \A g \in DOMAIN pool.Reservation :
                                r.st.Reservation[g] = pool.Reservation[g]
                          /\ r.st.Admin = pool.Admin /\ r.st.Token = pool.Token
                          /\ r.ev = [type |-> "Reserved", game_id |-> game_id,
                                     amount |-> amount]

C17_Witness ==
    /\ pool_last.op = "reserve"
    /\ pool_last.res = Ok
    /\ get_available(pool) = 0
    /\ Cardinality(DOMAIN pool.Reservation) = 2
    /\ \E g \in DOMAIN pool.Reservation :
          pool.Reservation[g].remaining = pool.Reservation[g].total

\* C18: a successful release(admin, game_id, amount) takes amount from the
\* reservation's remaining and from total_reserved and adds it to available,
\* so that available + total_reserved is unchanged; the reservation is
\* removed exactly when its remaining reaches 0 and otherwise stays with the
\* smaller remaining and the same total; no other reservation changes.
\* release has no access to the token ledger.  The admin's release of any
\* amount with 0 < amount <= remaining is successful.
C18_ReleaseReturnsToAvailable ==
    \A admin \in Accounts, game_id \in GameIds, amount \in Amounts, auth \in BOOLEAN :
        LET r == release(pool, admin, game_id, amount, auth)
            before == pool.Reservation[game_id]
        IN  /\ (/\ admin = pool.Admin /\ auth /\ game_id \in DOMAIN pool.Reservation
                /\ 0 < amount /\ amount <= before.remaining) => r.res = Ok
            /\ r.res = Ok =>
                  /\ game_id \in DOMAIN pool.Reservation
                  /\ r.st.Available = Some(get_available(pool) + amount)
                  /\ r.st.TotalReserved = Some(get_total_reserved(pool) - amount)
                  /\ get_available(r.st) + get_total_reserved(r.st)
                        = get_available(pool) + get_total_reserved(pool)
                  /\ game_id \notin DOMAIN r.st.Reservation
                        <=> before.remaining - amount = 0
                  /\ game_id \in DOMAIN r.st.Reservation =>
                        r.st.Reservation[game_id] =
                            [total |-> before.total,
                             remaining |-> before.remaining - amount]
                  /\ \A g \in GameIds \ {game_id} :
                        /\ g \in DOMAIN r.st.Reservation <=> g \in DOMAIN pool.Reservation
                        /\ g \in DOMAIN pool.Reservation =>
                              r.st.Reservation[g] = pool.Reservation[g]
                  /\ r.ev = [type |-> "Released", game_id |-> game_id,
                             amount |-> amount]

C18_Witness ==
    /\ pool_last.op = "release"
    /\ pool_last.res = Ok
    /\ pool.Reservation = <<>>
    /\ audit.paid > 0
    /\ get_available(pool) > 0
    /\ get_available(pool) = audit.funded - audit.paid

\* C19: a successful payout(admin, to, game_id, amount) leaves available and
\* every other game's reservation as they were, takes amount from that
\* reservation's remaining and from total_reserved, removes the reservation
\* when its remaining reaches 0, and moves exactly amount tokens from the
\* pool to `to`, no other balance changing.
C19_PayoutTouchesOneReservation ==
    \A admin \in Accounts, to \in Recipients, game_id \in GameIds, amount \in Amounts,
       auth \in BOOLEAN, accepted \in BOOLEAN :
        LET p == payout(pool, balance, admin, to, game_id, amount, auth, accepted)
            before == pool.Reservation[game_id]
        IN  p.res = Ok =>
              /\ game_id \in DOMAIN pool.Reservation
              /\ p.st.Available = pool.Available
              /\ p.st.TotalReserved = Some(get_total_reserved(pool) - amount)
              /\ game_id \notin DOMAIN p.st.Reservation
                    <=> before.remaining - amount = 0
              /\ game_id \in DOMAIN p.st.Reservation =>
                    p.st.Reservation[game_id] =
                        [total |-> before.total,
                         remaining |-> before.remaining - amount]
              /\ \A g \in GameIds \ {game_id} :
                    /\ g \in DOMAIN p.st.Reservation <=> g \in DOMAIN pool.Reservation
                    /\ g \in DOMAIN pool.Reservation =>
                          p.st.Reservation[g] = pool.Reservation[g]
              /\ p.st.Admin = pool.Admin /\ p.st.Token = pool.Token
              /\ p.bal[to] = balance[to] + amount
              /\ p.bal[PoolAddress] = balance[PoolAddress] - amount
              /\ \A h \in Holders \ {to, PoolAddress} : p.bal[h] = balance[h]
              /\ p.ev = [type |-> "PaidOut", to |-> to, game_id |-> game_id,
                         amount |-> amount]

C19_Witness ==
    /\ pool_last.op = "payout"
    /\ pool_last.res = Ok
    /\ get_available(pool) > 0
    /\ balance["winner"] > 0
    /\ \E g \in DOMAIN pool.Reservation :
          pool.Reservation[g].remaining = pool.Reservation[g].total

\* C20: in every reachable state every stored reservation has
\* 0 < remaining <= total, so none is stored with remaining = 0; and in every
\* step a reservation that stays stored keeps its total and does not gain
\* remaining.
C20_StoredReservationsShrink ==
    /\ [](\A g \in DOMAIN pool.Reservation :
             /\ 0 < pool.Reservation[g].remaining
             /\ pool.Reservation[g].remaining <= pool.Reservation[g].total)
    /\ [][\A g \in DOMAIN pool.Reservation \cap DOMAIN pool'.Reservation :
             /\ pool'.Reservation[g].total = pool.Reservation[g].total
             /\ pool'.Reservation[g].remaining <= pool.Reservation[g].remaining]_vars

C20_Witness ==
    /\ pool_last.op \in {"payout", "release"}
    /\ pool_last.res = Ok
    /\ Cardinality(DOMAIN pool.Reservation) = 1
    /\ \E g \in DOMAIN pool.Reservation :
          pool.Reservation[g].remaining < pool.Reservation[g].total

\* C21 as claimed: reserve succeeds at most once for a given game_id.  Only
\* a successful reserve stores a reservation under a game_id that had none,
\* so no step may do that for a game_id reserve has succeeded for before.
C21_ReserveSucceedsOncePerGame ==
    [][\A g \in GameIds :
          (g \notin DOMAIN pool.Reservation /\ g \in DOMAIN pool'.Reservation)
              => g \notin audit.reserved]_vars

\* C22: in every reachable state total_reserved is the sum of remaining over
\* the stored reservations, hence 0 when none is stored; get_pool_state
\* reports that sum as reserved.
C22_TotalReservedIsSumOfRemaining ==
    /\ get_total_reserved(pool) = SumRemaining(pool.Reservation)
    /\ pool.Reservation = <<>> => get_total_reserved(pool) = 0
    /\ get_pool_state(pool).res = Ok =>
          get_pool_state(pool).state.reserved = SumRemaining(pool.Reservation)

C22_Witness ==
    /\ pool_last.op \in {"payout", "release"}
    /\ pool_last.res = Ok
    /\ Cardinality(DOMAIN pool.Reservation) = 2
    /\ \E g \in DOMAIN pool.Reservation :
          pool.Reservation[g].remaining < pool.Reservation[g].total
    /\ get_total_reserved(pool) = 2

\* C23: no counter wraps: available, total_reserved and every remaining stay
\* within 0..i128::MAX.  A fund that would take available above i128::MAX
\* fails, with Overflow once its transfer has gone through, and a reserve by
\* the admin on a free game_id that would take total_reserved above it
\* fails, with Overflow when the amount is within available; both leave the
\* stored available, total_reserved and the balances as they were.
C23_NoCounterWraps ==
    /\ get_available(pool) \in 0..I128_MAX
    /\ get_total_reserved(pool) \in 0..I128_MAX
    /\ \A g \in DOMAIN pool.Reservation :
          pool.Reservation[g].remaining \in 1..I128_MAX
    /\ pool.Admin # None =>
        \A from \in Funders, g \in GameIds \ DOMAIN pool.Reservation,
           amount \in Amounts \cup WideAmounts, accepted \in BOOLEAN :
            LET f == fund(pool, balance, from, amount, TRUE, accepted)
                v == reserve(pool, pool.Admin, g, amount, TRUE)
                moved == token_transfer(balance, from, PoolAddress, amount, accepted)
            IN  /\ (amount > 0 /\ get_available(pool) + amount > I128_MAX) =>
                      /\ f.res = IF moved = Nothing THEN TransferAborted ELSE "Overflow"
                      /\ f.st = pool
                      /\ f.bal = balance
                /\ (amount > 0 /\ get_total_reserved(pool) + amount > I128_MAX) =>
                      /\ v.res = IF amount > get_available(pool)
                                 THEN "InsufficientFunds" ELSE "Overflow"
                      /\ v.st = pool

C23_Witness ==
    /\ pool_last.op = "fund"
    /\ pool_last.res = "Overflow"
    /\ get_available(pool) > 0
    /\ pool.Reservation # <<>>

\* C28: once the pool is initialized, reserve, release and payout in the
\* name of an address other than the stored admin fail, NotAuthorized when
\* that address authorized the call, whatever the game and the amount, and
\* leave the storage and every token balance as they were; fund by any
\* address that authorizes it and holds the amount succeeds.
C28_AdminOnlyExceptFund ==
    pool.Admin # None =>
        /\ \A who \in Accounts \ {pool.Admin}, game_id \in GameIds, amount \in Amounts,
              to \in Recipients, auth \in BOOLEAN, accepted \in BOOLEAN :
               LET rs == reserve(pool, who, game_id, amount, auth)
                   rl == release(pool, who, game_id, amount, auth)
                   po == payout(pool, balance, who, to, game_id, amount, auth, accepted)
               IN  /\ rs.res # Ok /\ rs.st = pool /\ rs.ev = NoEvent
                   /\ rl.res # Ok /\ rl.st = pool /\ rl.ev = NoEvent
                   /\ po.res # Ok /\ po.st = pool /\ po.bal = balance
                   /\ auth => /\ rs.res = "NotAuthorized"
                              /\ rl.res = "NotAuthorized"
                              /\ po.res = "NotAuthorized"
        /\ \A from \in Accounts, amount \in 1..TokenSupply :
               (balance[from] >= amount /\ get_available(pool) + amount <= I128_MAX) =>
                   LET fu == fund(pool, balance, from, amount, TRUE, TRUE)
                   IN  /\ fu.res = Ok
                       /\ fu.st.Available = Some(get_available(pool) + amount)
                       /\ fu.bal[PoolAddress] = balance[PoolAddress] + amount

\* A non-admin was turned away from a pool that holds funds, some of them
\* reserved, all of them funded by a non-admin.
C28_Witness ==
    /\ pool_last.res = "NotAuthorized"
    /\ pool_last.op \in {"reserve", "release", "payout"}
    /\ get_available(pool) > 0
    /\ DOMAIN pool.Reservation # {}
    /\ audit.funded > 0

\* C31: fund, reserve, release and payout with amount <= 0 fail whoever
\* calls, write nothing and move no token; on an initialized pool the error
\* is InvalidAmount, for fund in every case and for the other three when the
\* admin authorizes the call.  No stored reservation has a total or a
\* remaining that is zero or negative.
C31_NonPositiveAmountRejected ==
    /\ \A who \in Accounts, to \in Recipients, g \in GameIds,
          amount \in {a \in Amounts : a <= 0}, auth \in BOOLEAN, accepted \in BOOLEAN :
           LET fu == fund(pool, balance, who, amount, auth, accepted)
               rs == reserve(pool, who, g, amount, auth)
               rl == release(pool, who, g, amount, auth)
               po == payout(pool, balance, who, to, g, amount, auth, accepted)
           IN  /\ fu.res # Ok /\ fu.st = pool /\ fu.bal = balance
               /\ rs.res # Ok /\ rs.st = pool
               /\ rl.res # Ok /\ rl.st = pool
               /\ po.res # Ok /\ po.st = pool /\ po.bal = balance
               /\ pool.Admin # None => fu.res = "InvalidAmount"
               /\ (pool.Admin # None /\ who = pool.Admin /\ auth) =>
                      /\ rs.res = "InvalidAmount"
                      /\ rl.res = "InvalidAmount"
                      /\ po.res = "InvalidAmount"
    /\ \A g \in DOMAIN pool.Reservation :
           pool.Reservation[g].total > 0 /\ pool.Reservation[g].remaining > 0

\* A call with a non-positive amount was turned away by a pool that holds
\* funds and an open reservation.
C31_Witness ==
    /\ pool_last.res = "InvalidAmount"
    /\ get_available(pool) > 0
    /\ DOMAIN pool.Reservation # {}

\* C37: when every inflow goes through fund, available and total_reserved
\* are never negative and the pool's token balance covers total_reserved;
\* for every open reservation, a payout the admin authorizes of any amount
\* with 0 < amount <= remaining, to a recipient the token accepts, succeeds:
\* its transfer does not fail for lack of pool balance.
C37_ReservationsArePayable ==
    /\ get_available(pool) >= 0
    /\ get_total_reserved(pool) >= 0
    /\ balance[PoolAddress] >= get_total_reserved(pool)
    /\ \A g \in DOMAIN pool.Reservation, to \in Recipients :
         \A amount \in 1..pool.Reservation[g].remaining :
           LET po == payout(pool, balance, pool.Admin, to, g, amount, TRUE, TRUE)
           IN  /\ token_transfer(balance, PoolAddress, to, amount, TRUE) # Nothing
               /\ po.res = Ok
               /\ po.bal[to] = balance[to] + amount
               /\ po.bal[PoolAddress] = balance[PoolAddress] - amount

\* After a payout the pool holds exactly what is still reserved, for two
\* open reservations, and nothing is available.
C37_Witness ==
    /\ pool_last.op = "payout"
    /\ pool_last.res = Ok
    /\ get_available(pool) = 0
    /\ balance[PoolAddress] = get_total_reserved(pool)
    /\ DOMAIN pool.Reservation = GameIds

(***************************************************************************)
(* Random generator: properties                                            *)
(***************************************************************************)
IsPending(st, id) == id \in DOMAIN st.PendingRequest
IsFulfilled(st, id) == id \in DOMAIN st.FulfilledRequest
IsAbsent(st, id) == ~IsPending(st, id) /\ ~IsFulfilled(st, id)
FulfillSucceeded == rng_last.op = "fulfill_random" /\ rng_last.res = Ok

\* C2: every request_id is in exactly one of the states absent, pending,
\* fulfilled: a pending and a fulfilled entry for one id never coexist.
C2_ExactlyOneState ==
    \A id \in RequestIds :
        /\ Cardinality({k \in {"absent", "pending", "fulfilled"} :
                \/ k = "absent" /\ IsAbsent(rng, id)
                \/ k = "pending" /\ IsPending(rng, id)
                \/ k = "fulfilled" /\ IsFulfilled(rng, id)}) = 1
        /\ ~(IsPending(rng, id) /\ IsFulfilled(rng, id))

C2_Witness ==
    /\ FulfillSucceeded
    /\ \E id \in RequestIds : IsFulfilled(rng, id)
    /\ \E id \in RequestIds : IsPending(rng, id)

\* C3: a request only moves absent -> pending -> fulfilled.  No step takes a
\* fulfilled id back to absent or pending or changes its FulfilledEntry; no
\* step takes a pending id back to absent or changes its PendingEntry; no
\* step takes an absent id straight to fulfilled.
C3_FulfilledIsTerminal ==
    [][\A id \in RequestIds :
          /\ IsFulfilled(rng, id) =>
                /\ IsFulfilled(rng', id)
                /\ ~IsPending(rng', id)
                /\ rng'.FulfilledRequest[id] = rng.FulfilledRequest[id]
          /\ IsPending(rng, id) =>
                \/ IsPending(rng', id) /\ ~IsFulfilled(rng', id)
                      /\ rng'.PendingRequest[id] = rng.PendingRequest[id]
                \/ IsFulfilled(rng', id) /\ ~IsPending(rng', id)
          /\ IsAbsent(rng, id) => ~IsFulfilled(rng', id)]_vars

C3_Witness ==
    /\ rng_last.op = "request_random"
    /\ rng_last.res = "DuplicateRequestId"
    /\ \E id \in RequestIds : IsFulfilled(rng, id)
    /\ \A id \in RequestIds : ~IsPending(rng, id)

\* C4: every stored FulfilledEntry has 0 <= result < max, and every bound
\* stored with a pending or fulfilled entry is at least 2, so derive_result
\* never reduces modulo 0 or 1.
C4_ResultInRange ==
    /\ \A id \in DOMAIN rng.FulfilledRequest :
          LET e == rng.FulfilledRequest[id]
          IN  e.max >= 2 /\ 0 <= e.result /\ e.result < e.max
    /\ \A id \in DOMAIN rng.PendingRequest : rng.PendingRequest[id].max >= 2

C4_Witness ==
    /\ FulfillSucceeded
    /\ \E id \in DOMAIN rng.FulfilledRequest :
          rng.FulfilledRequest[id].result = rng.FulfilledRequest[id].max - 1

\* The spec's formula, computed apart from derive_result:
\* big_endian_u64(SHA256(seed || big_endian_u64(id))[0..8]) mod m.
SpecDigest == [s \in ServerSeeds, id \in RequestIds |-> Sha256(s \o to_be_bytes(id, 8))]
SpecResult(server_seed, id, m) ==
    from_be_bytes_mod(SubSeq(SpecDigest[server_seed, id], 1, 8), m)

\* C5: a successful fulfill_random(oracle, id, seed) on a pending request
\* (caller c, bound m) removes the pending entry and stores the fulfilled
\* entry (c, m, seed, SpecResult(seed, id, m)) in the same step, changes no
\* other entry, and emits RandomFulfilled with the same id, result and seed,
\* so that recomputing from the event gives the stored result.
C5_FulfillStoresDerivedResult ==
    /\ \A oracle \in Addresses, id \in RequestIds, s \in ServerSeeds, auth \in BOOLEAN :
          LET r == fulfill_random(rng, oracle, id, s, auth)
          IN  r.res = Ok =>
                /\ IsPending(rng, id)
                /\ r.st.PendingRequest = Remove(rng.PendingRequest, id)
                /\ r.st.FulfilledRequest =
                      Put(rng.FulfilledRequest, id,
                          [caller |-> rng.PendingRequest[id].caller,
                           max |-> rng.PendingRequest[id].max,
                           server_seed |-> s,
                           result |-> SpecResult(s, id, rng.PendingRequest[id].max)])
                /\ r.ev = [type |-> "RandomFulfilled", request_id |-> id,
                           result |-> SpecResult(s, id, rng.PendingRequest[id].max),
                           server_seed |-> s]
    /\ FulfillSucceeded =>
          LET ev == rng_last.ev
          IN  /\ ev.type = "RandomFulfilled"
              /\ IsFulfilled(rng, ev.request_id) /\ ~IsPending(rng, ev.request_id)
              /\ rng.FulfilledRequest[ev.request_id].server_seed = ev.server_seed
              /\ rng.FulfilledRequest[ev.request_id].result = ev.result
              /\ SpecResult(ev.server_seed, ev.request_id,
                            rng.FulfilledRequest[ev.request_id].max) = ev.result

C5_Witness ==
    /\ FulfillSucceeded
    /\ rng_last.ev.result > 0
    /\ rng.FulfilledRequest[rng_last.ev.request_id].caller = "game"

\* C8: request_random on a request_id that is pending or fulfilled is
\* rejected whoever calls and whatever max is, with DuplicateRequestId when
\* the caller is whitelisted, authorizes the call and max >= 2; storage is
\* left as it was.
C8_DuplicateIdRejected ==
    \A caller \in Addresses, id \in RequestIds, max \in MaxValues, auth \in BOOLEAN :
        LET r == request_random(rng, caller, id, max, auth)
        IN  (IsPending(rng, id) \/ IsFulfilled(rng, id)) =>
               /\ r.res # Ok
               /\ r.st = rng
               /\ (caller \in rng.AuthorizedCaller /\ auth /\ max >= 2)
                     => r.res = "DuplicateRequestId"

C8_Witness ==
    /\ rng_last.op = "request_random"
    /\ rng_last.res = "DuplicateRequestId"
    /\ \E id \in RequestIds : IsPending(rng, id)
    /\ \E id \in RequestIds : IsFulfilled(rng, id)

\* C9: fulfill_random by the oracle on a fulfilled request_id fails with
\* AlreadyFulfilled for every seed and changes nothing; on a request_id that
\* is absent it fails with RequestNotFound and creates no entry.
C9_ReplayAndUnknownRejected ==
    \A id \in RequestIds, s \in ServerSeeds :
        LET r == fulfill_random(rng, rng.Oracle, id, s, TRUE)
        IN  /\ IsFulfilled(rng, id) => r.res = "AlreadyFulfilled" /\ r.st = rng
            /\ (rng.Admin # None /\ IsAbsent(rng, id))
                  => r.res = "RequestNotFound" /\ r.st = rng

C9_Witness ==
    /\ rng_last.op = "fulfill_random"
    /\ rng_last.res = "AlreadyFulfilled"
    /\ \E id \in RequestIds : IsAbsent(rng, id)

\* C10 as claimed: on an initialized contract, a caller that is not
\* whitelisted and authorizes the call fails with UnauthorizedCaller for
\* every request_id and every max.
C10_AlwaysUnauthorizedCaller ==
    rng.Admin # None =>
        \A caller \in Addresses \ rng.AuthorizedCaller, id \in RequestIds,
           max \in MaxValues :
            request_random(rng, caller, id, max, TRUE).res = "UnauthorizedCaller"

\* C10 as amended: a caller that is not whitelisted never gets a pending
\* entry created: request_random fails and leaves storage as it was, for
\* every request_id and max, with or without authorization; on an
\* initialized contract with a valid authorization the error is
\* UnauthorizedCaller when max >= 2 and InvalidBound when max < 2.
C10_NotWhitelistedRejected ==
    \A caller \in Addresses \ rng.AuthorizedCaller, id \in RequestIds,
       max \in MaxValues, auth \in BOOLEAN :
        LET r == request_random(rng, caller, id, max, auth)
        IN  /\ r.res # Ok
            /\ r.st = rng
            /\ (rng.Admin # None /\ auth) =>
                  r.res = IF max < 2 THEN "InvalidBound" ELSE "UnauthorizedCaller"

C10_Witness ==
    /\ rng_last.op = "request_random"
    /\ rng_last.res = "UnauthorizedCaller"
    /\ rng.AuthorizedCaller # {}
\* C11 as claimed: once a request is pending, the result fulfill_random
\* stores for it does not depend on what the oracle chooses afterwards.  From
\* one state in which the request is pending, the runs that continue with
\* fulfill_random under different server seeds must store the same result.
C11_ResultFixedOnceRequested ==
    \A id \in DOMAIN rng.PendingRequest, s1 \in ServerSeeds, s2 \in ServerSeeds :
        LET r1 == fulfill_random(rng, rng.Oracle, id, s1, TRUE)
            r2 == fulfill_random(rng, rng.Oracle, id, s2, TRUE)
        IN  /\ r1.res = Ok
            /\ r2.res = Ok
            /\ r1.st.FulfilledRequest[id].result = r2.st.FulfilledRequest[id].result
\* C24: get_result(id) returns the stored fulfilled entry if and only if id
\* is fulfilled.  For an id that is pending and for an id that is absent it
\* returns the same output, the error RequestNotFound once the contract is
\* initialized, so the output does not tell whether a pending request
\* exists; and a get_result step leaves the storage as it was.
C24_GetResultHidesPending ==
    /\ [](\A id \in RequestIds :
             LET r == get_result(rng, id)
             IN  /\ r.res = Ok <=> IsFulfilled(rng, id)
                 /\ r.res = Ok => r.entry = rng.FulfilledRequest[id]
                 /\ (rng.Admin # None /\ ~IsFulfilled(rng, id)) =>
                       r = [res |-> "RequestNotFound", entry |-> None]
                 /\ \A other \in RequestIds :
                       (~IsFulfilled(rng, id) /\ ~IsFulfilled(rng, other)) =>
                           get_result(rng, other) = r)
    /\ [][rng_last'.op = "get_result" => rng' = rng]_vars

C24_Witness ==
    /\ rng_last.op = "get_result"
    /\ rng_last.res = "RequestNotFound"
    /\ \E id \in RequestIds : IsPending(rng, id)
    /\ \E id \in RequestIds : IsAbsent(rng, id)
\* C25: authorize and revoke invoked with an address other than the stored
\* admin fail, with NotAuthorized when that address authorizes the call, and
\* leave the whitelist and the rest of the storage unchanged; invoked by the
\* admin they add or remove the one caller.  No step other than a successful
\* authorize or revoke changes the whitelist.
C25_WhitelistChangedByAdminOnly ==
    /\ [](rng.Admin # None =>
             \A who \in Addresses, caller \in Addresses, auth \in BOOLEAN :
                 LET a == authorize(rng, who, caller, auth)
                     v == revoke(rng, who, caller, auth)
                 IN  /\ who # rng.Admin =>
                           /\ a.res # Ok /\ a.st = rng
                           /\ v.res # Ok /\ v.st = rng
                           /\ auth => a.res = "NotAuthorized" /\ v.res = "NotAuthorized"
                     /\ (who = rng.Admin /\ auth) =>
                           /\ a.res = Ok
                           /\ a.st.AuthorizedCaller = rng.AuthorizedCaller \cup {caller}
                           /\ v.res = Ok
                           /\ v.st.AuthorizedCaller = rng.AuthorizedCaller \ {caller})
    /\ [][rng'.AuthorizedCaller # rng.AuthorizedCaller =>
             /\ rng_last'.op \in {"authorize", "revoke"}
             /\ rng_last'.res = Ok]_vars

C25_Witness ==
    /\ rng_last.op = "revoke"
    /\ rng_last.res = "NotAuthorized"
    /\ rng.AuthorizedCaller # {}
\* C26: once the contract is initialized, fulfill_random in the name of any
\* address other than the stored oracle fails and writes nothing, whatever
\* the state of the request id (unknown, pending or fulfilled): with that
\* address's authorization the error is NotAuthorized.  A request leaves the
\* pending set for the fulfilled set only by a successful fulfill_random of
\* the oracle.
C26_OnlyOracleFulfills ==
    /\ [](rng.Oracle # None =>
             \A who \in Addresses \ {rng.Oracle}, id \in RequestIds,
                s \in ServerSeeds, auth \in BOOLEAN :
                 LET f == fulfill_random(rng, who, id, s, auth)
                 IN  /\ f.res # Ok
                     /\ f.st = rng
                     /\ f.ev = NoEvent
                     /\ auth => f.res = "NotAuthorized")
    /\ [][\A id \in RequestIds :
              (id \in DOMAIN rng.PendingRequest /\ id \in DOMAIN rng'.FulfilledRequest) =>
                  /\ rng_last'.op = "fulfill_random"
                  /\ rng_last'.res = Ok
                  /\ \E s \in ServerSeeds :
                         rng' = fulfill_random(rng, rng.Oracle, id, s, TRUE).st]_vars

\* A non-oracle address was turned away while one request was pending and
\* another already fulfilled.
C26_Witness ==
    /\ rng_last.op = "fulfill_random"
    /\ rng_last.res = "NotAuthorized"
    /\ DOMAIN rng.PendingRequest # {}
    /\ DOMAIN rng.FulfilledRequest # {}
C29_InitAtMostOnce ==
    /\ [](/\ rng.Admin = None =>
                 \A a, c \in Addresses, id \in RequestIds, max \in MaxValues,
                    s \in ServerSeeds, auth \in BOOLEAN :
                     /\ authorize(rng, a, c, auth) = Fail(rng, "NotInitialized")
                     /\ revoke(rng, a, c, auth) = Fail(rng, "NotInitialized")
                     /\ request_random(rng, c, id, max, auth) = Fail(rng, "NotInitialized")
                     /\ fulfill_random(rng, a, id, s, auth) = Fail(rng, "NotInitialized")
                     /\ get_result(rng, id).res = "NotInitialized"
          /\ rng.Admin # None =>
                 \A a, o \in Addresses, auth \in BOOLEAN :
                     rng_init(rng, a, o, auth) = Fail(rng, "AlreadyInitialized")
          /\ pool.Admin = None =>
                 \A who \in Accounts, to \in Recipients, g \in GameIds, amount \in Amounts,
                    auth \in BOOLEAN, accepted \in BOOLEAN :
                     /\ fund(pool, balance, who, amount, auth, accepted)
                            = PFail(pool, balance, "NotInitialized")
                     /\ reserve(pool, who, g, amount, auth) = Fail(pool, "NotInitialized")
                     /\ release(pool, who, g, amount, auth) = Fail(pool, "NotInitialized")
                     /\ payout(pool, balance, who, to, g, amount, auth, accepted)
                            = PFail(pool, balance, "NotInitialized")
                     /\ get_pool_state(pool).res = "NotInitialized"
          /\ pool.Admin # None =>
                 \A a \in Accounts, t \in {"token", "other_token"}, auth \in BOOLEAN :
                     pool_init(pool, a, t, auth) = [res |-> "AlreadyInitialized", st |-> pool])
    /\ [][/\ rng.Admin # None => rng'.Admin = rng.Admin /\ rng'.Oracle = rng.Oracle
          /\ pool.Admin # None => pool'.Admin = pool.Admin /\ pool'.Token = pool.Token
          /\ rng'.Admin # rng.Admin => rng_last'.op = "init" /\ rng_last'.res = Ok
          /\ pool'.Admin # pool.Admin => pool_last'.op = "init" /\ pool_last'.res = Ok]_vars

\* A second init was turned away by a pool that holds funds and an open
\* reservation, while the random generator is still as deployed.
C29_Witness ==
    /\ pool_last.op = "init" /\ pool_last.res = "AlreadyInitialized"
    /\ get_available(pool) > 0
    /\ DOMAIN pool.Reservation # {}
    /\ rng = RngDeployed
\* C30: whitelist membership at the time of the call decides request_random,
\* whatever happened before.  In every state of the initialized contract a
\* request_random by an address outside the whitelist fails and writes
\* nothing, and one by a whitelisted address that authorizes it, with a
\* fresh id and max >= 2, succeeds and stores the pending request.  A
\* successful revoke leaves its caller outside the whitelist, a successful
\* authorize inside; an address outside gets in again only by a successful
\* authorize, and until then every request_random step fails.
C30_MembershipAtCallTimeDecides ==
    /\ [](rng.Admin # None =>
             \A c \in Addresses, id \in RequestIds, max \in MaxValues, auth \in BOOLEAN :
                 LET r == request_random(rng, c, id, max, auth)
                 IN  /\ c \notin rng.AuthorizedCaller =>
                            /\ r.res # Ok
                            /\ r.st = rng
                            /\ (max >= 2 /\ auth) => r.res = "UnauthorizedCaller"
                     /\ (/\ c \in rng.AuthorizedCaller
                         /\ auth
                         /\ max >= 2
                         /\ id \notin DOMAIN rng.PendingRequest
                         /\ id \notin DOMAIN rng.FulfilledRequest) =>
                            /\ r.res = Ok
                            /\ r.st.PendingRequest =
                                   Put(rng.PendingRequest, id, [caller |-> c, max |-> max]))
    /\ [][/\ (rng_last'.op = "revoke" /\ rng_last'.res = Ok) =>
                 \E c \in GameContracts :
                     rng'.AuthorizedCaller = rng.AuthorizedCaller \ {c}
          /\ (rng_last'.op = "authorize" /\ rng_last'.res = Ok) =>
                 \E c \in GameContracts :
                     rng'.AuthorizedCaller = rng.AuthorizedCaller \cup {c}
          /\ \A c \in Addresses :
                 (c \notin rng.AuthorizedCaller /\ c \in rng'.AuthorizedCaller) =>
                     rng_last'.op = "authorize" /\ rng_last'.res = Ok
          /\ (rng.AuthorizedCaller = {} /\ rng_last'.op = "request_random") =>
                 rng_last'.res # Ok /\ rng' = rng]_vars

\* The game contract, whose earlier request is on record, has been revoked
\* and its next request_random was turned away.
C30_Witness ==
    /\ rng_last.op = "request_random"
    /\ rng_last.res = "UnauthorizedCaller"
    /\ rng.AuthorizedCaller = {}
    /\ \E id \in DOMAIN rng.PendingRequest : rng.PendingRequest[id].caller = "game"
\* C32: on an initialized contract request_random with max < 2 fails with
\* InvalidBound whoever calls, whatever the id and with or without the
\* caller's authorization, and stores nothing; every pending and every
\* fulfilled entry has max >= 2.
C32_BoundBelowTwoRejected ==
    /\ \A c \in Addresses, id \in RequestIds, max \in {m \in MaxValues : m < 2},
          auth \in BOOLEAN :
           LET r == request_random(rng, c, id, max, auth)
           IN  /\ r.res # Ok
               /\ r.st = rng
               /\ r.ev = NoEvent
               /\ rng.Admin # None => r.res = "InvalidBound"
    /\ \A id \in DOMAIN rng.PendingRequest : rng.PendingRequest[id].max >= 2
    /\ \A id \in DOMAIN rng.FulfilledRequest : rng.FulfilledRequest[id].max >= 2

\* A request with max < 2 was turned away while one request was pending and
\* another fulfilled.
C32_Witness ==
    /\ rng_last.op = "request_random"
    /\ rng_last.res = "InvalidBound"
    /\ DOMAIN rng.PendingRequest # {}
    /\ DOMAIN rng.FulfilledRequest # {}
\* C38: a request id is taken for good.  A pending entry is left as it is by
\* every step except a successful fulfill_random, which replaces it by the
\* fulfilled entry of the same id, and a fulfilled entry is never removed; so
\* an id that is pending or fulfilled is never absent again, and
\* request_random on it fails for every caller and every max and writes
\* nothing (DuplicateRequestId for a whitelisted caller that authorizes the
\* call with max >= 2), fulfilled or not.
C38_RequestIdNeverFreed ==
    /\ [](\A id \in DOMAIN rng.PendingRequest \cup DOMAIN rng.FulfilledRequest :
              \A c \in Addresses, max \in MaxValues, auth \in BOOLEAN :
                  LET r == request_random(rng, c, id, max, auth)
                  IN  /\ r.res # Ok
                      /\ r.st = rng
                      /\ (c \in rng.AuthorizedCaller /\ auth /\ max >= 2) =>
                             r.res = "DuplicateRequestId")
    /\ [][/\ \A id \in DOMAIN rng.PendingRequest :
                 \/ /\ id \in DOMAIN rng'.PendingRequest
                    /\ rng'.PendingRequest[id] = rng.PendingRequest[id]
                 \/ /\ id \in DOMAIN rng'.FulfilledRequest
                    /\ rng_last'.op = "fulfill_random"
                    /\ rng_last'.res = Ok
          /\ \A id \in DOMAIN rng.FulfilledRequest :
                 id \in DOMAIN rng'.FulfilledRequest]_vars

\* A second request_random on an id that is still pending was turned away
\* (nothing is fulfilled yet, so the duplicate is the pending id).
C38_Witness ==
    /\ rng_last.op = "request_random"
    /\ rng_last.res = "DuplicateRequestId"
    /\ DOMAIN rng.PendingRequest # {}
    /\ DOMAIN rng.FulfilledRequest = {}
\* C39: a pending request stays fulfillable.  In every state, whatever
\* authorize and revoke calls came after the request, fulfill_random by the
\* oracle on a pending id succeeds for every server_seed and stores the
\* fulfilled entry; and if the oracle's fulfill_random on an id is taken
\* whenever it stays possible, every pending request is eventually fulfilled
\* and get_result returns its entry.
C39_PendingStaysFulfillable ==
    /\ [](\A id \in DOMAIN rng.PendingRequest, s \in ServerSeeds :
              LET f == fulfill_random(rng, rng.Oracle, id, s, TRUE)
              IN  /\ f.res = Ok
                  /\ id \in DOMAIN f.st.FulfilledRequest
                  /\ id \notin DOMAIN f.st.PendingRequest
                  /\ get_result(f.st, id).res = Ok)
    /\ \A id \in RequestIds :
           (id \in DOMAIN rng.PendingRequest)
               ~> (id \in DOMAIN rng.FulfilledRequest /\ get_result(rng, id).res = Ok)

\* A request was fulfilled after its caller had been revoked.
C39_Witness ==
    /\ rng_last.op = "fulfill_random"
    /\ rng_last.res = Ok
    /\ rng.AuthorizedCaller = {}
    /\ DOMAIN rng.FulfilledRequest # {}
(***************************************************************************)
(* Coin flip and dice roll: properties                                     *)
(***************************************************************************)
\* C35: with house_edge_bps = 250, a winning bet on a 100-token wager pays
\* 195 tokens, 5 tokens staying in the contract.
C35_WinningBetPays195 ==
    \A id \in DOMAIN flip.Game :
        (/\ flip.HouseEdgeBps = 250
         /\ flip.Game[id].wager = 100
         /\ flip.Game[id].resolved
         /\ flip.Game[id].won)
        => flip.Game[id].payout = 195
\* The games a step resolves: unresolved (or not stored) before, resolved after.
ResolvedByStep(before, after) ==
    {id \in DOMAIN after.Game :
        /\ after.Game[id].resolved
        /\ ~(id \in DOMAIN before.Game /\ before.Game[id].resolved)}

\* C33: a coin-flip or dice-roll game is resolved at most once.  For a game
\* that is resolved, every resolve_bet / resolve_roll fails with
\* GameAlreadyResolved and changes nothing; no step changes or removes a
\* resolved game; and a step in which a player's balance grows resolves
\* exactly one game, which was won by that player, and the growth is its payout.
C33_ResolvedAtMostOnce ==
    /\ [](/\ \A id \in DOMAIN flip.Game :
                flip.Game[id].resolved =>
                    /\ resolve_bet(flip, rng, ledger, id).res = "GameAlreadyResolved"
                    /\ resolve_bet(flip, rng, ledger, id).st = flip
                    /\ resolve_bet(flip, rng, ledger, id).bal = ledger
          /\ \A id \in DOMAIN dice.Game :
                dice.Game[id].resolved =>
                    /\ resolve_roll(dice, rng, ledger, id).res = "GameAlreadyResolved"
                    /\ resolve_roll(dice, rng, ledger, id).st = dice
                    /\ resolve_roll(dice, rng, ledger, id).bal = ledger)
    /\ [][/\ \A id \in DOMAIN flip.Game :
                flip.Game[id].resolved =>
                    id \in DOMAIN flip'.Game /\ flip'.Game[id] = flip.Game[id]
          /\ \A id \in DOMAIN dice.Game :
                dice.Game[id].resolved =>
                    id \in DOMAIN dice'.Game /\ dice'.Game[id] = dice.Game[id]
          /\ \A p \in Players :
                ledger'[p] > ledger[p] =>
                    \/ /\ ResolvedByStep(dice, dice') = {}
                       /\ \E id \in RoundIds :
                             /\ ResolvedByStep(flip, flip') = {id}
                             /\ flip'.Game[id].player = p
                             /\ flip'.Game[id].won
                             /\ ledger'[p] - ledger[p] = flip'.Game[id].payout
                    \/ /\ ResolvedByStep(flip, flip') = {}
                       /\ \E id \in RoundIds :
                             /\ ResolvedByStep(dice, dice') = {id}
                             /\ dice'.Game[id].player = p
                             /\ dice'.Game[id].won
                             /\ ledger'[p] - ledger[p] = dice'.Game[id].payout]_vars

C33_Witness ==
    /\ ext_last.res = "GameAlreadyResolved"
    /\ \E id \in DOMAIN flip.Game :
          flip.Game[id].resolved /\ flip.Game[id].won /\ ledger["player"] >= 198
    /\ \E id \in DOMAIN dice.Game : dice.Game[id].resolved
\* What resolving an unresolved game yields, r being the result of resolve_bet
\* or resolve_roll on game id of contract st, whose tokens are held by holder:
\* RngNotFulfilled with nothing changed while the request is not fulfilled;
\* once it is, the game resolved, or the payout transfer aborted with nothing
\* changed, and resolved whenever the contract holds the highest payout.
ResolvesOnlyWhenFulfilled(r, st, id, holder, highest) ==
    IF id \notin DOMAIN rng.FulfilledRequest
    THEN r.res = "RngNotFulfilled" /\ r.st = st /\ r.bal = ledger
    ELSE /\ r.res \in {Ok, TransferAborted}
         /\ r.res = Ok => r.st.Game[id].resolved
         /\ r.res = TransferAborted => r.st = st /\ r.bal = ledger
         /\ ledger[holder] >= highest => r.res = Ok

\* C34: a game is resolved only after the oracle has fulfilled the request
\* with the game's id.  While that request is not fulfilled, resolve_bet /
\* resolve_roll fails with RngNotFulfilled, pays nothing and leaves the game
\* unresolved; once it is fulfilled a resolve call goes through (the payout
\* transfer permitting); and a step that resolves a game starts in a state
\* where its request is fulfilled.
C34_ResolveFollowsFulfill ==
    /\ [](/\ \A id \in DOMAIN flip.Game :
                ~flip.Game[id].resolved =>
                    ResolvesOnlyWhenFulfilled(resolve_bet(flip, rng, ledger, id), flip, id,
                                              FlipAddress, flip.Game[id].wager * 2)
          /\ \A id \in DOMAIN dice.Game :
                ~dice.Game[id].resolved =>
                    ResolvesOnlyWhenFulfilled(resolve_roll(dice, rng, ledger, id), dice, id,
                                              DiceAddress,
                                              dice.Game[id].wager * PAYOUT_MULTIPLIER))
    /\ [][/\ ResolvedByStep(flip, flip') \subseteq DOMAIN rng.FulfilledRequest
          /\ ResolvedByStep(dice, dice') \subseteq DOMAIN rng.FulfilledRequest]_vars

C34_Witness ==
    /\ ext_last = [op |-> "resolve_bet", res |-> "RngNotFulfilled"]
    /\ \E id \in DOMAIN flip.Game :
          ~flip.Game[id].resolved /\ id \in DOMAIN rng.PendingRequest
    /\ \E id \in DOMAIN flip.Game : flip.Game[id].resolved
\* The random generator's entry for a coin-flip game: a request of the
\* coin-flip contract with max 2, pending or fulfilled with result 0 or 1.
FlipRequestStored(rg, id) ==
    \/ /\ id \in DOMAIN rg.PendingRequest
       /\ rg.PendingRequest[id] = [caller |-> FlipAddress, max |-> 2]
    \/ /\ id \in DOMAIN rg.FulfilledRequest
       /\ rg.FulfilledRequest[id].caller = FlipAddress
       /\ rg.FulfilledRequest[id].max = 2
       /\ rg.FulfilledRequest[id].result \in {0, 1}

\* C40: place_bet takes the wager, registers the request and stores the game
\* all together, or does none of them (as when the id is already used in the
\* random generator); every stored coin-flip game has a request with its id
\* in the random generator, made by the coin-flip contract with max 2, and
\* the outcome resolve_bet reads for it is 0 or 1.
C40_BetAndRequestGoTogether ==
    /\ \A id \in DOMAIN flip.Game :
          /\ FlipRequestStored(rng, id)
          /\ get_result(rng, id).res = Ok => get_result(rng, id).entry.result \in {0, 1}
    /\ \A player \in Players, side \in Sides, wager \in Wagers, game_id \in RoundIds,
          auth \in BOOLEAN :
          LET r == place_bet(flip, rng, ledger, player, side, wager, game_id, auth)
          IN  /\ r.res = Ok =>
                    /\ r.bal[player] = ledger[player] - wager
                    /\ r.bal[FlipAddress] = ledger[FlipAddress] + wager
                    /\ game_id \notin DOMAIN rng.PendingRequest
                    /\ game_id \notin DOMAIN rng.FulfilledRequest
                    /\ game_id \in DOMAIN r.rng.PendingRequest
                    /\ game_id \notin DOMAIN flip.Game
                    /\ game_id \in DOMAIN r.st.Game
              /\ r.res # Ok => r.st = flip /\ r.rng = rng /\ r.bal = ledger
              /\ (game_id \in DOMAIN rng.PendingRequest
                    \/ game_id \in DOMAIN rng.FulfilledRequest) => r.res # Ok

C40_Witness ==
    /\ ext_last = [op |-> "place_bet", res |-> HostTrap]
    /\ FlipAddress \in rng.AuthorizedCaller
    /\ \E id \in DOMAIN dice.Game :
          place_bet(flip, rng, ledger, "player", HEADS, 100, id, TRUE).res = HostTrap
    /\ \E id \in DOMAIN flip.Game : id \in DOMAIN rng.FulfilledRequest
(***************************************************************************)
(* Treasury: properties                                                    *)
(***************************************************************************)
Counters(st) ==
    <<st.Available, st.TotalDeposited, st.TotalAllocated, st.TotalReleased>>

\* C36: after any sequence of treasury calls, available_balance is
\* total_deposited - total_allocated - total_released and treasury_state
\* does not return Overflow; a deposit, allocate or release on a key already
\* processed fails and changes none of the four counters, with
\* DuplicateOperation when the call passes the checks placed before that of
\* the key (not paused, amount > 0 and, for allocate and release, the
\* admin's authorization).
C36_TreasuryAccountsBalance ==
    /\ trs.Available = trs.TotalDeposited - trs.TotalAllocated - trs.TotalReleased
    /\ treasury_state(trs).res # "Overflow"
    /\ trs.Admin # None => treasury_state(trs).res = Ok
    /\ \A amount \in TreasuryAmounts, auth \in BOOLEAN :
          /\ \A key \in trs.ProcessedDeposit :
                LET r == deposit(trs, ledger, key[1], amount, key[2], auth)
                IN  /\ r.res # Ok
                    /\ Counters(r.st) = Counters(trs)
                    /\ r.bal = ledger
                    /\ (~trs.Paused /\ amount > 0) => r.res = "DuplicateOperation"
          /\ \A key \in trs.ProcessedAllocation :
                LET r == allocate(trs, ledger, key[1], amount, key[2], auth)
                IN  /\ r.res # Ok
                    /\ Counters(r.st) = Counters(trs)
                    /\ r.bal = ledger
                    /\ (~trs.Paused /\ amount > 0 /\ auth) => r.res = "DuplicateOperation"
          /\ \A key \in trs.ProcessedRelease :
                LET r == treasury_release(trs, ledger, key[1], amount, key[2], auth)
                IN  /\ r.res # Ok
                    /\ Counters(r.st) = Counters(trs)
                    /\ r.bal = ledger
                    /\ (~trs.Paused /\ amount > 0 /\ auth) => r.res = "DuplicateOperation"

C36_Witness ==
    /\ ext_last = [op |-> "deposit", res |-> "DuplicateOperation"]
    /\ trs.TotalAllocated > 0
    /\ trs.TotalReleased > 0
    /\ trs.Available > 0
    /\ trs.ProcessedAllocation # {}
    /\ trs.ProcessedRelease # {}
====
